---- MODULE Spec2Model ----
(***************************************************************************)
(* EDI X12 997 functional-acknowledgment validator.                        *)
(*                                                                         *)
(* The module models run_validation_pipeline (delimiter detection, typed   *)
(* parsing of every segment, the forward scan that rebuilds the AK2 loops, *)
(* the final build of the ValidationResult) together with the direct API   *)
(* of Validator997 and of the validation models.                           *)
(*                                                                         *)
(* Python values are modelled as follows:                                  *)
(*   None / Optional[T]   the empty tuple <<>> / the 1-tuple <<v>>         *)
(*   a raw segment        the tuple of its elements (the result of         *)
(*                        str.split on the element separator)              *)
(*   a pydantic model     a record with a "type" field and the model's     *)
(*                        fields; == on models is equality of the records  *)
(***************************************************************************)
EXTENDS Integers, Sequences, FiniteSets, TLC

None == <<>>

Some(v) == <<v>>

(***************************************************************************)
(* Bounds of the model.                                                    *)
(***************************************************************************)
\* longest segment stream that follows the interchange header
MaxLen == 4

(***************************************************************************)
(* String conversions.                                                     *)
(***************************************************************************)
\* str.upper() on the acknowledgment codes of the model
UpperTable ==
  [c \in {"a", "e", "p", "r", "m", "w", "x", "z", "aa"} |->
     CASE c = "a" -> "A" [] c = "e" -> "E" [] c = "p" -> "P" [] c = "r" -> "R"
       [] c = "m" -> "M" [] c = "w" -> "W" [] c = "x" -> "X" [] c = "z" -> "Z"
       [] c = "aa" -> "AA"]

Upper(s) == IF s \in DOMAIN UpperTable THEN UpperTable[s] ELSE s

\* str.strip() as applied by str_strip_whitespace / parse_segment_id
StripTable ==
  [s \in {" ", "          ", " AK1", "850 "} |->
     CASE s = " " -> "" [] s = "          " -> "" [] s = " AK1" -> "AK1"
       [] s = "850 " -> "850"]

StrStrip(s) == IF s \in DOMAIN StripTable THEN StripTable[s] ELSE s

\* int(value): the numerals of the model; every other string raises ValueError
IntTable ==
  [s \in {"0", "1", "2", "3", "5", "8", "66", "-1"} |->
     CASE s = "0" -> 0 [] s = "1" -> 1 [] s = "2" -> 2 [] s = "3" -> 3
       [] s = "5" -> 5 [] s = "8" -> 8 [] s = "66" -> 66 [] s = "-1" -> -1]

IsIntString(s) == s \in DOMAIN IntTable

(***************************************************************************)
(* Element parser.  A result is [ok |-> TRUE, val |-> v] or                *)
(* [ok |-> FALSE, error |-> e].                                            *)
(***************************************************************************)
Ok(v) == [ok |-> TRUE, val |-> v]

Raise(e) == [ok |-> FALSE, error |-> e]

\* ElementParser.get_element: position is the Python index (0 is the tag);
\* the value is returned as Some(value), a missing optional one as default
get_element(elements, position, required, default) ==
  IF position >= Len(elements)
    THEN IF required THEN Raise("TokenizationError") ELSE Ok(default)
    ELSE LET value == elements[position + 1] IN
         IF value = "" /\ required THEN Raise("TokenizationError")
         ELSE IF value # "" THEN Ok(Some(value)) ELSE Ok(default)

\* as_int that yields the default for content that is no integer
as_int_default_on_invalid(r, default) ==
  IF ~r.ok THEN r
  ELSE IF r.val = None THEN Ok(default)
  ELSE IF IsIntString(r.val[1]) THEN Ok(Some(IntTable[r.val[1]]))
  ELSE Ok(default)

\* the conversion of get_element_as_int, applied to the result r of get_element
as_int(r, default) ==
  IF ~r.ok THEN r
  ELSE IF r.val = None THEN Ok(default)
  ELSE IF IsIntString(r.val[1]) THEN Ok(Some(IntTable[r.val[1]]))
  ELSE Raise("TokenizationError")

\* ElementParser.get_element_as_int
get_element_as_int(elements, position, required, default) ==
  as_int(get_element(elements, position, required, None), default)

\* ElementParser.parse_segment_id
parse_segment_id(segment) ==
  IF segment = <<>> THEN Raise("TokenizationError")
  ELSE LET segment_id == StrStrip(segment[1]) IN
       IF segment_id = "" THEN Raise("TokenizationError") ELSE Ok(segment_id)

(***************************************************************************)
(* Typed segment records: the field layout of every known tag.  Field k of *)
(* a layout is read from element position k.  min/max are the pydantic     *)
(* min_length/max_length of a string field (0 when there is no minimum)    *)
(* and min is the ge bound of an integer field.                            *)
(***************************************************************************)
StrFld(name, required, min_length, max_length) ==
  [name |-> name, kind |-> "str", required |-> required,
   min |-> min_length, max |-> max_length]

IntFld(name, required, ge) ==
  [name |-> name, kind |-> "int", required |-> required, min |-> ge, max |-> ge]

KnownTags == {"ISA", "GS", "ST", "AK1", "AK2", "AK3", "AK4", "AK5", "AK9", "SE", "GE", "IEA"}

SegmentLayout ==
  [tag \in KnownTags |->
    CASE tag = "ISA" ->
          << StrFld("authorization_info_qualifier", TRUE, 2, 2),
             StrFld("authorization_info", TRUE, 0, 10),
             StrFld("security_info_qualifier", TRUE, 2, 2),
             StrFld("security_info", TRUE, 0, 10),
             StrFld("interchange_sender_qualifier", TRUE, 2, 2),
             StrFld("interchange_sender_id", TRUE, 0, 15),
             StrFld("interchange_receiver_qualifier", TRUE, 2, 2),
             StrFld("interchange_receiver_id", TRUE, 0, 15),
             StrFld("interchange_date", TRUE, 6, 6),
             StrFld("interchange_time", TRUE, 4, 4),
             StrFld("interchange_control_standards_id", TRUE, 1, 1),
             StrFld("interchange_control_version_number", TRUE, 5, 5),
             StrFld("interchange_control_number", TRUE, 9, 9),
             StrFld("acknowledgment_requested", TRUE, 1, 1),
             StrFld("test_indicator", TRUE, 1, 1),
             StrFld("sub_element_separator", TRUE, 1, 1) >>
      [] tag = "GS" ->
          << StrFld("functional_id_code", TRUE, 2, 2),
             StrFld("application_sender_code", TRUE, 0, 15),
             StrFld("application_receiver_code", TRUE, 0, 15),
             StrFld("date", TRUE, 8, 8),
             StrFld("time", TRUE, 4, 8),
             StrFld("group_control_number", TRUE, 1, 9),
             StrFld("responsible_agency_code", TRUE, 1, 2),
             StrFld("version_release_industry_id", TRUE, 0, 12) >>
      [] tag = "ST" ->
          << StrFld("transaction_set_id", TRUE, 3, 3),
             StrFld("transaction_set_control_number", TRUE, 4, 9),
             StrFld("implementation_convention_reference", FALSE, 0, 35) >>
      [] tag = "AK1" ->
          << StrFld("functional_id_code", TRUE, 2, 2),
             StrFld("group_control_number", TRUE, 1, 9),
             StrFld("version_release_industry_id", FALSE, 0, 12) >>
      [] tag = "AK2" ->
          << StrFld("transaction_set_id", TRUE, 3, 3),
             StrFld("transaction_set_control_number", TRUE, 4, 9),
             StrFld("implementation_convention_reference", FALSE, 0, 35) >>
      [] tag = "AK3" ->
          << StrFld("segment_id", TRUE, 2, 3),
             IntFld("segment_position_in_transaction_set", TRUE, 1),
             StrFld("loop_identifier_code", FALSE, 0, 6),
             StrFld("segment_syntax_error_code", FALSE, 1, 3) >>
      [] tag = "AK4" ->
          << IntFld("element_position_in_segment", TRUE, 1),
             IntFld("data_element_reference_number", FALSE, 1),
             StrFld("data_element_syntax_error_code", TRUE, 1, 3),
             StrFld("copy_of_bad_data_element", FALSE, 0, 99) >>
      [] tag = "AK5" ->
          << StrFld("transaction_set_ack_code", TRUE, 1, 1),
             StrFld("transaction_set_syntax_error_code_1", FALSE, 1, 3),
             StrFld("transaction_set_syntax_error_code_2", FALSE, 1, 3),
             StrFld("transaction_set_syntax_error_code_3", FALSE, 1, 3),
             StrFld("transaction_set_syntax_error_code_4", FALSE, 1, 3),
             StrFld("transaction_set_syntax_error_code_5", FALSE, 1, 3) >>
      [] tag = "AK9" ->
          << StrFld("functional_group_ack_code", TRUE, 1, 1),
             IntFld("number_of_transaction_sets_included", TRUE, 0),
             IntFld("number_of_received_transaction_sets", TRUE, 0),
             IntFld("number_of_accepted_transaction_sets", TRUE, 0),
             StrFld("functional_group_syntax_error_code_1", FALSE, 1, 3),
             StrFld("functional_group_syntax_error_code_2", FALSE, 1, 3),
             StrFld("functional_group_syntax_error_code_3", FALSE, 1, 3),
             StrFld("functional_group_syntax_error_code_4", FALSE, 1, 3),
             StrFld("functional_group_syntax_error_code_5", FALSE, 1, 3) >>
      [] tag = "SE" ->
          << IntFld("number_of_included_segments", TRUE, 1),
             StrFld("transaction_set_control_number", TRUE, 4, 9) >>
      [] tag = "GE" ->
          << IntFld("number_of_transaction_sets", TRUE, 1),
             StrFld("group_control_number", TRUE, 1, 9) >>
      [] tag = "IEA" ->
          << IntFld("number_of_included_groups", TRUE, 1),
             StrFld("interchange_control_number", TRUE, 9, 9) >> ]

\* pydantic validation of one field of a typed record: the element parser's
\* result r is stripped and held against the length / ge constraint of the
\* field.  A required field is held as its value, an optional one as
\* None / Some(v).
validate_field(r, f) ==
  IF ~r.ok THEN r
  ELSE IF r.val = None
    THEN IF f.required THEN Raise("ValidationError") ELSE Ok(None)
  ELSE IF f.kind = "int"
    THEN IF r.val[1] < f.min THEN Raise("ValidationError")
         ELSE Ok(IF f.required THEN r.val[1] ELSE r.val)
  ELSE IF Len(StrStrip(r.val[1])) < f.min \/ Len(StrStrip(r.val[1])) > f.max
    THEN Raise("ValidationError")
  ELSE Ok(IF f.required THEN StrStrip(r.val[1]) ELSE Some(StrStrip(r.val[1])))

\* one keyword argument of a _parse_xxx method, validated
parse_field(elements, position, f) ==
  validate_field(IF f.kind = "int"
                   THEN get_element_as_int(elements, position, f.required, None)
                   ELSE get_element(elements, position, f.required, None),
                 f)

\* the typed record built from the validated fields; the first failure is
\* the exception of the construction
build_segment(segment_type, layout, fields) ==
  IF \E k \in DOMAIN fields : ~fields[k].ok
    THEN fields[CHOOSE k \in DOMAIN fields :
                  ~fields[k].ok /\ \A j \in 1..(k - 1) : fields[j].ok]
    ELSE Ok([n \in {"type"} \cup {layout[k].name : k \in DOMAIN layout} |->
               IF n = "type" THEN segment_type
               ELSE fields[CHOOSE k \in DOMAIN layout : layout[k].name = n].val])

\* a _parse_xxx method: the fields are read in order, then the record is built
parse_fields(segment, segment_type, layout) ==
  build_segment(segment_type, layout,
                [k \in DOMAIN layout |-> parse_field(segment, k, layout[k])])

\* every failure of the construction is re-raised as TokenizationError
reraise(r) == IF r.ok THEN r ELSE Raise("TokenizationError")

\* SegmentParser.parse_segment
parse_segment(segment, segment_type) ==
  reraise(parse_fields(segment, segment_type, SegmentLayout[segment_type]))

\* dispatch that reads a GE segment with the layout of SE
dispatch_ge_as_se(segment, id) ==
  IF ~id.ok THEN id
  ELSE IF id.val \notin KnownTags THEN Raise("TokenizationError")
  ELSE parse_segment(segment, IF id.val = "GE" THEN "SE" ELSE id.val)

\* the dispatch of parse_segment_by_id on the segment id
dispatch(segment, id) ==
  IF ~id.ok THEN id
  ELSE IF id.val \notin KnownTags THEN Raise("TokenizationError")
  ELSE parse_segment(segment, id.val)

\* SegmentParser.parse_segment_by_id
parse_segment_by_id(segment) == dispatch(segment, parse_segment_id(segment))

(***************************************************************************)
(* The raw segments of the inputs, and their typed records.                *)
(***************************************************************************)
ISA_OK == <<"ISA", "00", "          ", "00", "          ", "ZZ", "SENDER",
            "ZZ", "RECEIVER", "230101", "1200", "U", "00401", "000000001",
            "0", "P", ":">>

\* an ISA whose control number is too short for the typed record
ISA_BAD == <<"ISA", "00", "          ", "00", "          ", "ZZ", "SENDER",
             "ZZ", "RECEIVER", "230101", "1200", "U", "00401", "1", "0", "P", ":">>

AK1_PO == <<"AK1", "PO", "1234">>

AK1_IN == <<"AK1", "IN", "5678">>

AK2_850 == <<"AK2", "850", "0001">>

AK2_810 == <<"AK2", "810", "0002">>

\* an AK3 with a segment syntax error code, and one without
AK3_N1 == <<"AK3", "N1", "2", "", "8">>

AK3_REF == <<"AK3", "REF", "3">>

AK4_1 == <<"AK4", "1", "66", "1", "BAD">>

AK5_A == <<"AK5", "A">>

\* an empty first syntax-error slot followed by two codes
AK5_R == <<"AK5", "R", "", "5", "3">>

AK9_a == <<"AK9", "a", "1", "1", "1">>

AK9_R == <<"AK9", "R", "2", "2", "0", "5">>

GE_1 == <<"GE", "1", "1">>

\* an unknown tag, and known tags with a malformed field
ZZ_1 == <<"ZZ", "1">>

GS_BAD == <<"GS", "FA">>

IEA_BAD == <<"IEA", "x", "000000001">>

\* further segments handed to the validator API
AK4_2 == <<"AK4", "2", "", "5">>

AK5_e == <<"AK5", "e", "1", "2", "3", "5", "8">>

AK5_Z == <<"AK5", "Z">>

AK9_A05 == <<"AK9", "A", "1", "0", "0", "", "5">>

\* syntax error codes in the first, third and fifth slots
AK9_P == <<"AK9", "P", "3", "2", "1", "3", "", "5", "", "8">>

\* acknowledgment codes handed to the classifiers
AckCodes == {"A", "E", "P", "R", "M", "W", "X", "Z", "1", "", "AA",
             "a", "e", "p", "r", "m", "w", "x", "z", "aa"}

\* an AK9 with each one-character acknowledgment code
AK9_Codes == {<<"AK9", c, "2", "2", "1">> : c \in {a \in AckCodes : Len(a) = 1}}

RawSegments ==
  {ISA_OK, ISA_BAD, AK1_PO, AK1_IN, AK2_850, AK2_810, AK3_N1, AK3_REF, AK4_1,
   AK4_2, AK5_A, AK5_R, AK5_e, AK5_Z, AK9_a, AK9_R, AK9_A05, AK9_P, GE_1, ZZ_1,
   GS_BAD, IEA_BAD} \cup AK9_Codes

\* parse_segment_by_id tabulated over the raw segments of the inputs
ParseTable == [segment \in RawSegments |-> parse_segment_by_id(segment)]

\* the result of parse_segment_by_id(segment)
ParsedSegment(segment) == ParseTable[segment]

(***************************************************************************)
(* Error code resolver.  The descriptions come from external data; a       *)
(* description is modelled as the pair (code table, code) it is looked up  *)
(* with.                                                                   *)
(***************************************************************************)
get_segment_error(code) == [description |-> <<"segment_syntax_errors", code>>]

get_element_error(code) == [description |-> <<"element_syntax_errors", code>>]

get_transaction_set_error(code) ==
  [description |-> <<"transaction_set_syntax_errors", code>>]

(***************************************************************************)
(* Validation models.                                                      *)
(***************************************************************************)
\* models/validation.py ErrorDetail
ErrorDetail(segment_id, segment_position, element_position, element_reference_number, error_code, error_description, severity, bad_data_element) ==
  [segment_id |-> segment_id, segment_position |-> segment_position,
   element_position |-> element_position,
   element_reference_number |-> element_reference_number,
   error_code |-> error_code, error_description |-> error_description,
   severity |-> severity, bad_data_element |-> bad_data_element]

\* models/validation.py TransactionSetValidation: the constructor stores the
\* fields it is given; no validator relates error_count to errors
TransactionSetValidation(transaction_set_id, transaction_control_number, status, ack_code, error_count, errors, syntax_error_codes) ==
  [transaction_set_id |-> transaction_set_id,
   transaction_control_number |-> transaction_control_number,
   status |-> status, ack_code |-> ack_code, error_count |-> error_count,
   errors |-> errors, syntax_error_codes |-> syntax_error_codes]

\* models/validation.py FunctionalGroupValidation
FunctionalGroupValidation(functional_id_code, group_control_number, status, ack_code, transaction_sets_included, transaction_sets_received, transaction_sets_accepted, transaction_validations, group_syntax_error_codes) ==
  [functional_id_code |-> functional_id_code,
   group_control_number |-> group_control_number,
   status |-> status, ack_code |-> ack_code,
   transaction_sets_included |-> transaction_sets_included,
   transaction_sets_received |-> transaction_sets_received,
   transaction_sets_accepted |-> transaction_sets_accepted,
   transaction_validations |-> transaction_validations,
   group_syntax_error_codes |-> group_syntax_error_codes]

\* models/validation.py ValidationResult (the timestamp is left out)
ValidationResult(interchange_control_number, interchange_sender_id, interchange_receiver_id, functional_group, is_valid) ==
  [interchange_control_number |-> interchange_control_number,
   interchange_sender_id |-> interchange_sender_id,
   interchange_receiver_id |-> interchange_receiver_id,
   functional_group |-> functional_group, is_valid |-> is_valid]

RECURSIVE SumSeq(_)
SumSeq(q) == IF q = <<>> THEN 0 ELSE Head(q) + SumSeq(Tail(q))

\* FunctionalGroupValidation.total_errors
total_errors(fg) ==
  SumSeq([k \in 1..Len(fg.transaction_validations) |->
            fg.transaction_validations[k].error_count])

(***************************************************************************)
(* Validator997.                                                           *)
(***************************************************************************)
\* classify_transaction_status without the upper-casing of line 58
classify_transaction_status_case_sensitive(ack_code) ==
  IF ack_code = "A" THEN "ACCEPTED"
  ELSE IF ack_code \in {"E", "P"} THEN "PARTIALLY_ACCEPTED"
  ELSE IF ack_code \in {"R", "M", "W", "X"} THEN "REJECTED"
  ELSE "UNKNOWN"

\* Validator997.classify_transaction_status
classify_transaction_status(ack_code) ==
  LET code == Upper(ack_code) IN
  IF code = "A" THEN "ACCEPTED"
  ELSE IF code \in {"E", "P"} THEN "PARTIALLY_ACCEPTED"
  ELSE IF code \in {"R", "M", "W", "X"} THEN "REJECTED"
  ELSE "UNKNOWN"

\* Validator997.classify_functional_group_status
classify_functional_group_status(ack_code) ==
  LET code == Upper(ack_code) IN
  IF code = "A" THEN "ACCEPTED"
  ELSE IF code \in {"E", "P"} THEN "PARTIALLY_ACCEPTED"
  ELSE IF code = "R" THEN "REJECTED"
  ELSE "UNKNOWN"

\* Validator997.build_error_detail_from_ak4; ak3 is None or Some(AK3 record)
build_error_detail_from_ak4(ak4, ak3) ==
  LET error_info == get_element_error(ak4.data_element_syntax_error_code) IN
  ErrorDetail(IF ak3 # None THEN Some(ak3[1].segment_id) ELSE None,
              IF ak3 # None THEN Some(ak3[1].segment_position_in_transaction_set)
                            ELSE None,
              Some(ak4.element_position_in_segment),
              ak4.data_element_reference_number,
              ak4.data_element_syntax_error_code,
              error_info.description,
              "error",
              ak4.copy_of_bad_data_element)

\* truth value of an Optional[str]: None and "" are false
Truthy(opt) == opt # None /\ opt[1] # ""

\* Validator997.build_error_detail_from_ak3
build_error_detail_from_ak3(ak3) ==
  LET error_code == IF Truthy(ak3.segment_syntax_error_code)
                      THEN ak3.segment_syntax_error_code[1] ELSE "8"
      error_info == get_segment_error(error_code)
  IN ErrorDetail(Some(ak3.segment_id),
                 Some(ak3.segment_position_in_transaction_set),
                 None, None, error_code, error_info.description, "error", None)

\* AK5Segment.get_error_codes
ak5_get_error_codes(ak5) ==
  LET codes == << ak5.transaction_set_syntax_error_code_1,
                  ak5.transaction_set_syntax_error_code_2,
                  ak5.transaction_set_syntax_error_code_3,
                  ak5.transaction_set_syntax_error_code_4,
                  ak5.transaction_set_syntax_error_code_5 >>
      present == SelectSeq(codes, LAMBDA code : code # None)
  IN [k \in 1..Len(present) |-> present[k][1]]

\* AK9Segment.get_error_codes
ak9_get_error_codes(ak9) ==
  LET codes == << ak9.functional_group_syntax_error_code_1,
                  ak9.functional_group_syntax_error_code_2,
                  ak9.functional_group_syntax_error_code_3,
                  ak9.functional_group_syntax_error_code_4,
                  ak9.functional_group_syntax_error_code_5 >>
      present == SelectSeq(codes, LAMBDA code : code # None)
  IN [k \in 1..Len(present) |-> present[k][1]]

\* ak3_errors without the test of line 178: one ErrorDetail for every AK3
ak3_errors_every_ak3(ak3_segments) ==
  [k \in DOMAIN ak3_segments |-> build_error_detail_from_ak3(ak3_segments[k])]

\* validate_transaction_set lines 176-179: one ErrorDetail for each AK3 that
\* carries a segment syntax error code
ak3_errors(ak3_segments) ==
  LET coded == SelectSeq(ak3_segments,
                         LAMBDA ak3 : Truthy(ak3.segment_syntax_error_code))
  IN [k \in DOMAIN coded |-> build_error_detail_from_ak3(coded[k])]

\* validate_transaction_set line 189: the last AK3 of the loop, if any
current_ak3(ak3_segments) ==
  IF ak3_segments # <<>> THEN Some(ak3_segments[Len(ak3_segments)]) ELSE None

\* validate_transaction_set lines 189-191: one ErrorDetail for each AK4, all
\* with current_ak3 as their context
ak4_errors(ak3_segments, ak4_segments) ==
  [k \in DOMAIN ak4_segments |->
     build_error_detail_from_ak4(ak4_segments[k], current_ak3(ak3_segments))]

\* validate_transaction_set lines 197-210: one ErrorDetail for each AK5
\* syntax error code
ak5_errors(syntax_error_codes) ==
  [k \in DOMAIN syntax_error_codes |->
     ErrorDetail(None, None, None, None, syntax_error_codes[k],
                 get_transaction_set_error(syntax_error_codes[k]).description,
                 "error", None)]

\* validate_transaction_set with error_count taken from the segments received
\* instead of the errors emitted
validate_transaction_set_counts_segments(ak2, ak5, ak3_segments, ak4_segments) ==
  TransactionSetValidation(ak2.transaction_set_id,
                           ak2.transaction_set_control_number,
                           classify_transaction_status(ak5.transaction_set_ack_code),
                           ak5.transaction_set_ack_code,
                           Len(ak3_segments) + Len(ak4_segments),
                           ak3_errors(ak3_segments)
                             \o ak4_errors(ak3_segments, ak4_segments)
                             \o ak5_errors(ak5_get_error_codes(ak5)),
                           ak5_get_error_codes(ak5))

\* Validator997.validate_transaction_set
validate_transaction_set(ak2, ak5, ak3_segments, ak4_segments) ==
  LET errors == ak3_errors(ak3_segments)
                  \o ak4_errors(ak3_segments, ak4_segments)
                  \o ak5_errors(ak5_get_error_codes(ak5))
  IN TransactionSetValidation(ak2.transaction_set_id,
                              ak2.transaction_set_control_number,
                              classify_transaction_status(ak5.transaction_set_ack_code),
                              ak5.transaction_set_ack_code,
                              Len(errors), errors, ak5_get_error_codes(ak5))

\* validate_functional_group that reports the transaction sets it was handed
\* as the received ones
validate_functional_group_counts_transactions(ak1, ak9, tvs) == FunctionalGroupValidation(ak1.functional_id_code, ak1.group_control_number, classify_functional_group_status(ak9.functional_group_ack_code), ak9.functional_group_ack_code, ak9.number_of_transaction_sets_included, Len(tvs), ak9.number_of_accepted_transaction_sets, tvs, ak9_get_error_codes(ak9))

\* Validator997.validate_functional_group
validate_functional_group(ak1, ak9, tvs) ==
  LET status == classify_functional_group_status(ak9.functional_group_ack_code)
      group_syntax_error_codes == ak9_get_error_codes(ak9)
  IN FunctionalGroupValidation(ak1.functional_id_code, ak1.group_control_number,
                               status, ak9.functional_group_ack_code,
                               ak9.number_of_transaction_sets_included,
                               ak9.number_of_received_transaction_sets,
                               ak9.number_of_accepted_transaction_sets,
                               tvs, group_syntax_error_codes)

\* lines 279-281: the overall flag
is_valid(fg_validation) == fg_validation.status = "ACCEPTED"

\* the overall flag when it also asks every transaction set to be accepted
is_valid_all_accepted(fg_validation) ==
  /\ fg_validation.status = "ACCEPTED"
  /\ \A k \in DOMAIN fg_validation.transaction_validations :
       fg_validation.transaction_validations[k].status = "ACCEPTED"

\* lines 283-289: the result built around the functional group validation
build_result(isa_seg, fg_validation, valid) ==
  ValidationResult(isa_seg.interchange_control_number,
                   isa_seg.interchange_sender_id,
                   isa_seg.interchange_receiver_id,
                   fg_validation, valid)

\* validate_997 with the stricter flag
validate_997_all_accepted(isa_seg, ak1_seg, ak9_seg, tvs) ==
  build_result(isa_seg, validate_functional_group(ak1_seg, ak9_seg, tvs),
               is_valid_all_accepted(validate_functional_group(ak1_seg, ak9_seg, tvs)))

\* Validator997.validate_997
validate_997(isa_seg, ak1_seg, ak9_seg, tvs) ==
  build_result(isa_seg, validate_functional_group(ak1_seg, ak9_seg, tvs),
               is_valid(validate_functional_group(ak1_seg, ak9_seg, tvs)))

(***************************************************************************)
(* Text at character level: a string is a tuple of one-character strings.  *)
(***************************************************************************)
\* the characters str.strip() removes
Whitespace == {" ", "\t", "\n", "\r", "\f"}

Min(a, b) == IF a <= b THEN a ELSE b

\* the characters of a text
Chars(s) == {s[k] : k \in DOMAIN s}

\* str.strip()
strip(s) == IF Chars(s) \subseteq Whitespace THEN <<>> ELSE SubSeq(s, CHOOSE k \in DOMAIN s : s[k] \notin Whitespace /\ \A j \in 1..(k - 1) : s[j] \in Whitespace, CHOOSE k \in DOMAIN s : s[k] \notin Whitespace /\ \A j \in (k + 1)..Len(s) : s[j] \in Whitespace)

\* str.startswith(prefix)
startswith(s, prefix) == Len(s) >= Len(prefix) /\ SubSeq(s, 1, Len(prefix)) = prefix

\* the positions of s, in order, that hold the character sep
cuts(s, sep) == SelectSeq([k \in DOMAIN s |-> k], LAMBDA k : s[k] = sep)

pieces(s, at) == [j \in 1..(Len(at) + 1) |-> SubSeq(s, (IF j = 1 THEN 0 ELSE at[j - 1]) + 1, (IF j > Len(at) THEN Len(s) + 1 ELSE at[j]) - 1)]

\* str.split(sep) for a one-character separator
split(s, sep) == pieces(s, cuts(s, sep))

\* the characters of s at the positions ks
at_positions(s, ks) == [j \in DOMAIN ks |-> s[ks[j]]]

\* str.replace("\r\n", "")
replace_crlf(s) == at_positions(s, SelectSeq([k \in DOMAIN s |-> k], LAMBDA k : ~(s[k] = "\r" /\ k < Len(s) /\ s[k + 1] = "\n") /\ ~(s[k] = "\n" /\ k > 1 /\ s[k - 1] = "\r")))

\* str.replace(c, "") for one character
replace_char(s, c) == SelectSeq(s, LAMBDA x : x # c)

(***************************************************************************)
(* Delimiter detection.                                                    *)
(***************************************************************************)
Delimiters(element, segment, sub_element, repetition) == [element |-> element, segment |-> segment, sub_element |-> sub_element, repetition |-> repetition]

ISA_PREFIX == <<"I", "S", "A">>

ISA_MIN_LENGTH == 106

ELEMENT_SEPARATOR_POSITION == 3

SUB_ELEMENT_SEPARATOR_POSITION == 104

\* an exception with its message
RaiseMsg(e, m) == [ok |-> FALSE, error |-> e, message |-> m]

read_separators(element_separator, segment_terminator, sub_element_separator) ==
  IF Cardinality({element_separator, segment_terminator, sub_element_separator}) # 3
  THEN RaiseMsg("DelimiterDetectionError", "Delimiters are not unique")
  ELSE Ok(Delimiters(element_separator, segment_terminator, sub_element_separator, None))

\* detect_from_stripped with the length checked before the prefix
detect_from_stripped_length_first(isa_segment) ==
  IF Len(isa_segment) < ISA_MIN_LENGTH
  THEN RaiseMsg("InvalidISASegmentError", "ISA segment too short")
  ELSE IF ~startswith(isa_segment, ISA_PREFIX)
  THEN RaiseMsg("InvalidISASegmentError", "Segment does not start with 'ISA'")
  ELSE read_separators(isa_segment[ELEMENT_SEPARATOR_POSITION + 1], isa_segment[Len(isa_segment)], isa_segment[SUB_ELEMENT_SEPARATOR_POSITION + 1])

\* the checks on the trimmed segment
detect_from_stripped(isa_segment) ==
  IF ~startswith(isa_segment, ISA_PREFIX)
  THEN RaiseMsg("InvalidISASegmentError", "Segment does not start with 'ISA'")
  ELSE IF Len(isa_segment) < ISA_MIN_LENGTH
  THEN RaiseMsg("InvalidISASegmentError", "ISA segment too short")
  ELSE read_separators(isa_segment[ELEMENT_SEPARATOR_POSITION + 1], isa_segment[Len(isa_segment)], isa_segment[SUB_ELEMENT_SEPARATOR_POSITION + 1])

detect_from_isa(isa_segment) ==
  IF isa_segment = <<>>
  THEN RaiseMsg("InvalidISASegmentError", "ISA segment is empty")
  ELSE detect_from_stripped(strip(isa_segment))

common_terminators == <<"~", "!", "|">>

\* the text taken for the ISA segment, given the trial terminators found
extract_isa_segment(content, found) ==
  IF found # <<>>
  THEN Append(split(content, found[1])[1], found[1])
  ELSE IF "\n" \in Chars(content)
  THEN split(content, "\n")[1]
  ELSE SubSeq(content, 1, Min(Len(content), ISA_MIN_LENGTH + 10))

\* the checks on the trimmed content
detect_from_stripped_content(content) ==
  IF ~startswith(content, ISA_PREFIX)
  THEN RaiseMsg("InvalidISASegmentError", "File does not start with ISA segment")
  ELSE detect_from_isa(extract_isa_segment(content, SelectSeq(common_terminators, LAMBDA terminator : terminator \in Chars(content))))

detect_from_file_content(content) ==
  IF content = <<>>
  THEN RaiseMsg("InvalidISASegmentError", "File content is empty")
  ELSE detect_from_stripped_content(strip(content))

DelimitersConfig(element, segment, sub_element, repetition) == [element |-> element, segment |-> segment, sub_element |-> sub_element, repetition |-> repetition]

from_config(config) == Delimiters(config.element, config.segment, config.sub_element, Some(config.repetition))

use_default_delimiters(default_delimiters) == from_config(default_delimiters)

(***************************************************************************)
(* Tokenization of text.                                                   *)
(***************************************************************************)
ParserConfig(auto_detect_delimiters, default_delimiters, trim_whitespace, preserve_line_breaks) == [auto_detect_delimiters |-> auto_detect_delimiters, default_delimiters |-> default_delimiters, trim_whitespace |-> trim_whitespace, preserve_line_breaks |-> preserve_line_breaks]

\* the delimiters in use and the events logged on the way to them
Resolved(delimiters, events) == [delimiters |-> delimiters, events |-> events]

\* the outcome of the detection attempt: its result or the defaults
detected_or_default(r, config) ==
  IF r.ok
  THEN Resolved(r.val, <<"delimiters_auto_detected">>)
  ELSE Resolved(use_default_delimiters(config.default_delimiters), <<"delimiter_detection_failed", "using_default_delimiters">>)

\* resolve_delimiters that detects whenever no delimiters are supplied,
\* whatever the flag
resolve_delimiters_always_detects(content, delimiters, config) ==
  IF delimiters # None
  THEN Resolved(delimiters[1], <<>>)
  ELSE detected_or_default(detect_from_file_content(content), config)

resolve_delimiters(content, delimiters, config) ==
  IF delimiters # None
  THEN Resolved(delimiters[1], <<>>)
  ELSE IF config.auto_detect_delimiters
  THEN detected_or_default(detect_from_file_content(content), config)
  ELSE Resolved(use_default_delimiters(config.default_delimiters), <<"using_default_delimiters">>)

handle_line_breaks(content, config) ==
  IF ~config.preserve_line_breaks
  THEN replace_char(replace_char(replace_crlf(content), "\n"), "\r")
  ELSE content

trimmed(segments, config) == [k \in DOMAIN segments |-> IF config.trim_whitespace THEN strip(segments[k]) ELSE segments[k]]

\* clean_segments that discards the empty pieces before it trims
clean_segments_trims_last(segments, config) == trimmed(SelectSeq(segments, LAMBDA segment : segment # <<>>), config)

clean_segments(segments, config) == SelectSeq(trimmed(segments, config), LAMBDA segment : segment # <<>>)

\* what a call yields: its result, the events it logged and the delimiters
\* it split with
Tokenized(ret, events, used) == [ret |-> ret, events |-> events, used |-> used]

tokenize_with(content, d, config) == Tokenized(Ok(clean_segments(split(handle_line_breaks(content, config), d.delimiters.segment), config)), Append(d.events, "tokenization_complete"), Some(d.delimiters))

\* tokenize_content that rejects the empty content only
EDITokenizer_tokenize_content_not_content(content, delimiters, config) ==
  IF content = <<>>
  THEN Tokenized(Raise("EmptyFileError"), <<>>, None)
  ELSE tokenize_with(content, resolve_delimiters(content, delimiters, config), config)

EDITokenizer_tokenize_content(content, delimiters, config) ==
  IF content = <<>> \/ strip(content) = <<>>
  THEN Tokenized(Raise("EmptyFileError"), <<>>, None)
  ELSE tokenize_with(content, resolve_delimiters(content, delimiters, config), config)

(***************************************************************************)
(* Composite and repeating elements.                                       *)
(***************************************************************************)
\* [element] if element else []
one_or_none(element) == IF element # <<>> THEN <<element>> ELSE <<>>

\* split_repeating_element that drops the empty repetitions
split_repeating_element_drops_empty(element, delimiters) ==
  IF element = <<>> \/ delimiters.repetition = None
  THEN one_or_none(element)
  ELSE IF delimiters.repetition[1] \notin Chars(element)
  THEN <<element>>
  ELSE SelectSeq(split(element, delimiters.repetition[1]), LAMBDA piece : piece # <<>>)

split_composite_element(element, delimiters) ==
  IF element = <<>> \/ delimiters.sub_element \notin Chars(element)
  THEN one_or_none(element)
  ELSE split(element, delimiters.sub_element)

split_repeating_element(element, delimiters) ==
  IF element = <<>> \/ delimiters.repetition = None
  THEN one_or_none(element)
  ELSE IF delimiters.repetition[1] \notin Chars(element)
  THEN <<element>>
  ELSE split(element, delimiters.repetition[1])

(***************************************************************************)
(* Reconciliation models.                                                  *)
(***************************************************************************)
OutboundTransaction(transaction_set_id, transaction_control_number, group_control_number, functional_id_code) == [transaction_set_id |-> transaction_set_id, transaction_control_number |-> transaction_control_number, group_control_number |-> group_control_number, functional_id_code |-> functional_id_code]

OutboundFunctionalGroup(functional_id_code, group_control_number, transactions) == [functional_id_code |-> functional_id_code, group_control_number |-> group_control_number, transactions |-> transactions]

\* the constructor stores the fields it is given; no validator relates the
\* two sides, the status and the reason
TransactionReconciliation(outbound_transaction, acknowledgment, status, mismatch_reason) == [outbound_transaction |-> outbound_transaction, acknowledgment |-> acknowledgment, status |-> status, mismatch_reason |-> mismatch_reason]

\* TransactionReconciliation.control_number
control_number(tr) ==
  IF tr.outbound_transaction # None THEN Some(tr.outbound_transaction[1].transaction_control_number)
  ELSE IF tr.acknowledgment # None THEN Some(tr.acknowledgment[1].transaction_control_number)
  ELSE None

FunctionalGroupReconciliation(outbound_group, group_control_number, functional_id_code, transaction_reconciliations) == [outbound_group |-> outbound_group, group_control_number |-> group_control_number, functional_id_code |-> functional_id_code, transaction_reconciliations |-> transaction_reconciliations]

\* the number of reconciliations of the group with the given status
count_status(fg, status) == Len(SelectSeq(fg.transaction_reconciliations, LAMBDA tr : tr.status = status))

matched_count(fg) == count_status(fg, "MATCHED")

missing_ack_count(fg) == count_status(fg, "MISSING_ACK")

unexpected_ack_count(fg) == count_status(fg, "UNEXPECTED_ACK")

total_count(fg) == Len(fg.transaction_reconciliations)

\* is_fully_reconciled without the test of total_count
is_fully_reconciled_when_empty(fg) == matched_count(fg) = total_count(fg)

is_fully_reconciled(fg) == total_count(fg) > 0 /\ matched_count(fg) = total_count(fg)

ReconciliationResult(functional_group_reconciliation, fully_reconciled, summary) == [functional_group_reconciliation |-> functional_group_reconciliation, is_fully_reconciled |-> fully_reconciled, summary |-> summary]

(***************************************************************************)
(* Reconciler.  A formatted text is the tuple of its literal parts and the *)
(* values formatted into it.                                               *)
(***************************************************************************)
\* reconcile_transaction that compares nothing when both sides are present
reconcile_transaction_ignores_ids(outbound_tx, ack_tx) ==
  IF outbound_tx # None /\ ack_tx # None
  THEN Ok(TransactionReconciliation(outbound_tx, ack_tx, "MATCHED", None))
  ELSE IF outbound_tx # None
  THEN Ok(TransactionReconciliation(outbound_tx, None, "MISSING_ACK", Some(<<"No acknowledgment received for transaction ", outbound_tx[1].transaction_control_number>>)))
  ELSE IF ack_tx # None
  THEN Ok(TransactionReconciliation(None, ack_tx, "UNEXPECTED_ACK", Some(<<"Unexpected acknowledgment for transaction ", ack_tx[1].transaction_control_number>>)))
  ELSE Raise("ValueError")

reconcile_transaction(outbound_tx, ack_tx) ==
  IF outbound_tx # None /\ ack_tx # None
  THEN IF outbound_tx[1].transaction_set_id # ack_tx[1].transaction_set_id
       THEN Ok(TransactionReconciliation(outbound_tx, ack_tx, "CONTROL_NUMBER_MISMATCH", Some(<<"Transaction set ID mismatch: expected ", outbound_tx[1].transaction_set_id, ", got ", ack_tx[1].transaction_set_id>>)))
       ELSE Ok(TransactionReconciliation(outbound_tx, ack_tx, "MATCHED", None))
  ELSE IF outbound_tx # None
  THEN Ok(TransactionReconciliation(outbound_tx, None, "MISSING_ACK", Some(<<"No acknowledgment received for transaction ", outbound_tx[1].transaction_control_number>>)))
  ELSE IF ack_tx # None
  THEN Ok(TransactionReconciliation(None, ack_tx, "UNEXPECTED_ACK", Some(<<"Unexpected acknowledgment for transaction ", ack_tx[1].transaction_control_number>>)))
  ELSE Raise("ValueError")

\* the code points of the control numbers of the model
CodePoints == [s \in {"0001", "0002", "10", "9"} |-> CASE s = "0001" -> <<48, 48, 48, 49>> [] s = "0002" -> <<48, 48, 48, 50>> [] s = "10" -> <<49, 48>> [] s = "9" -> <<57>>]

\* the order of two tuples of code points: at the first difference, or the
\* shorter one first
lex_less(a, b) == \E k \in 1..(Len(b)) : (\A j \in 1..(k - 1) : j <= Len(a) /\ a[j] = b[j]) /\ (k > Len(a) \/ (k - 1 < Len(a) /\ a[k] < b[k]))

\* str < str
str_less(a, b) == lex_less(CodePoints[a], CodePoints[b])

\* the control numbers of the model read as integers
ControlNumberValue == [s \in {"0001", "0002", "10", "9"} |-> CASE s = "0001" -> 1 [] s = "0002" -> 2 [] s = "10" -> 10 [] s = "9" -> 9]

\* sorted(keys, key=int)
sorted_as_integers(keys) == [n \in 1..Cardinality(keys) |-> CHOOSE k \in keys : Cardinality({j \in keys : ControlNumberValue[j] < ControlNumberValue[k]}) = n - 1]

\* sorted(keys)
sorted(keys) == [n \in 1..Cardinality(keys) |-> CHOOSE k \in keys : Cardinality({j \in keys : str_less(j, k)}) = n - 1]

\* a map that keeps the first transaction of a control number
control_number_map_keeps_first(transactions) == [key \in {transactions[n].transaction_control_number : n \in DOMAIN transactions} |-> transactions[CHOOSE n \in DOMAIN transactions : transactions[n].transaction_control_number = key /\ \A m \in 1..(n - 1) : transactions[m].transaction_control_number # key]]

\* {tx.transaction_control_number: tx for tx in transactions}: the last
\* transaction of a control number is the one kept
control_number_map(transactions) == [key \in {transactions[n].transaction_control_number : n \in DOMAIN transactions} |-> transactions[CHOOSE n \in DOMAIN transactions : transactions[n].transaction_control_number = key /\ \A m \in (n + 1)..Len(transactions) : transactions[m].transaction_control_number # key]]

\* dict.get(key)
map_get(map, key) == IF key \in DOMAIN map THEN Some(map[key]) ELSE None

\* the reconciliations of the control numbers, in their order
reconcile_keys(keys, outbound_map, ack_map) == [n \in DOMAIN keys |-> reconcile_transaction(map_get(outbound_map, keys[n]), map_get(ack_map, keys[n]))]

\* the group built from the reconciliations, or the exception of the first
\* one that raised
build_group(fg_validation, outbound_group, results) ==
  IF \E n \in DOMAIN results : ~results[n].ok
  THEN Raise("ValueError")
  ELSE Ok(FunctionalGroupReconciliation(Some(outbound_group), fg_validation.group_control_number, fg_validation.functional_id_code, [n \in DOMAIN results |-> results[n].val]))

reconcile_maps(fg_validation, outbound_group, outbound_map, ack_map) == build_group(fg_validation, outbound_group, reconcile_keys(sorted(DOMAIN outbound_map \cup DOMAIN ack_map), outbound_map, ack_map))

reconcile_functional_group(fg_validation, outbound_group) == reconcile_maps(fg_validation, outbound_group, control_number_map(outbound_group.transactions), control_number_map(fg_validation.transaction_validations))

\* ", ".join(parts)
RECURSIVE join(_, _)
join(sep, parts) == IF parts = <<>> THEN <<>> ELSE IF Len(parts) = 1 THEN parts[1] ELSE parts[1] \o <<sep>> \o join(sep, Tail(parts))

\* the clause of a count, when the count is not zero
clause(count, text) == IF count > 0 THEN << <<count, text>> >> ELSE <<>>

\* _build_summary that adds a clause for the matched transactions too
build_summary_every_count(fg) == join(", ", << <<matched_count(fg), "/", total_count(fg), " transactions matched">> >> \o clause(missing_ack_count(fg), " missing acknowledgments") \o clause(unexpected_ack_count(fg), " unexpected acknowledgments") \o clause(count_status(fg, "CONTROL_NUMBER_MISMATCH"), " mismatched transactions"))

\* _build_summary
build_summary(fg) == join(", ", << <<matched_count(fg), "/", total_count(fg), " transactions matched">> >> \o clause(missing_ack_count(fg), " missing acknowledgments") \o clause(unexpected_ack_count(fg), " unexpected acknowledgments"))

\* the result built around the reconciliation of the group
build_reconciliation_result(r) == IF ~r.ok THEN r ELSE Ok(ReconciliationResult(r.val, is_fully_reconciled(r.val), build_summary(r.val)))

reconcile(validation_result, outbound_group) == build_reconciliation_result(reconcile_functional_group(validation_result.functional_group, outbound_group))

(***************************************************************************)
(* State.                                                                  *)
(*   content     the input: the kind of interchange header it starts with  *)
(*               and the element tuples of its segments                    *)
(*   pc          position of the caller: "detect", "parse", "scan", "done" *)
(*               inside run_validation_pipeline; "api", "returned" around  *)
(*               one direct call of the validator API                      *)
(*   outcome     None, [kind |-> "return", value |-> ValidationResult] or  *)
(*               [kind |-> "raise", error |-> exception]                   *)
(*   api_call    None or the direct call made: [fn, args, ret]             *)
(* The other variables are the locals of run_validation_pipeline; i is the *)
(* position of seg in parsed_segments.  The h_ variables are history       *)
(* variables: where the segment held by a local was read, and one record   *)
(* per call of validate_transaction_set made by the scan.                  *)
(***************************************************************************)
VARIABLES content, pc, outcome, api_call,
          parsed_segments, i, isa, ak1, ak9, transaction_validations,
          current_ak2, current_ak3_segments, current_ak4_segments,
          h_ak1_at, h_ak2_at, h_ak9_at, h_closes

vars == << content, pc, outcome, api_call,
           parsed_segments, i, isa, ak1, ak9, transaction_validations,
           current_ak2, current_ak3_segments, current_ak4_segments,
           h_ak1_at, h_ak2_at, h_ak9_at, h_closes >>

locals == << parsed_segments, i, isa, ak1, ak9, transaction_validations,
             current_ak2, current_ak3_segments, current_ak4_segments,
             h_ak1_at, h_ak2_at, h_ak9_at, h_closes >>

(***************************************************************************)
(* run_validation_pipeline.                                                *)
(***************************************************************************)
\* DelimiterDetector.detect_from_file_content as the pipeline sees it: the
\* content must start with ISA, and the header must be long enough and carry
\* three distinct separators
DetectOutcome(c) ==
  IF c.segs = <<>> THEN Raise("InvalidISASegmentError")
  ELSE IF c.segs[1][1] # "ISA" THEN Raise("InvalidISASegmentError")
  ELSE IF c.header = "too_short" THEN Raise("InvalidISASegmentError")
  ELSE IF c.header = "conflict" THEN Raise("DelimiterDetectionError")
  ELSE Ok("delimiters")

\* EDITokenizer.tokenize_content with the detected delimiters: the non-empty
\* trimmed pieces of the content, in order
tokenize_content(c) ==
  IF c.segs = <<>> THEN Raise("EmptyFileError")
  ELSE Ok(SelectSeq(c.segs, LAMBDA segment : segment # <<"">>))

\* lines 42-44: detection succeeds
DetectDelimiters ==
  /\ pc = "detect"
  /\ DetectOutcome(content).ok
  /\ pc' = "parse"
  /\ UNCHANGED << content, outcome, api_call, locals >>

\* lines 42-44: detection raises and the pipeline ends
DetectDelimitersFails ==
  /\ pc = "detect"
  /\ ~DetectOutcome(content).ok
  /\ pc' = "done"
  /\ outcome' = [kind |-> "raise", error |-> DetectOutcome(content).error]
  /\ UNCHANGED << content, api_call, locals >>

\* the parse loop when a segment that does not parse is skipped
collect_skip_failures(results) ==
  Ok([k \in DOMAIN SelectSeq(results, LAMBDA r : r.ok) |->
        SelectSeq(results, LAMBDA r : r.ok)[k].val])

\* lines 56-60: the typed segments, or the first failure
collect(results) ==
  IF \E k \in DOMAIN results : ~results[k].ok
    THEN results[CHOOSE k \in DOMAIN results :
                   ~results[k].ok /\ \A j \in 1..(k - 1) : results[j].ok]
    ELSE Ok([k \in DOMAIN results |-> results[k].val])

\* lines 56-60: the segments are parsed in order
parse_all(segments) ==
  collect([k \in DOMAIN segments |-> ParsedSegment(segments[k])])

\* lines 56-60 after line 53: a tokenization failure propagates
parse_tokens(t) == IF ~t.ok THEN t ELSE parse_all(t.val)

\* lines 52-60: tokenize, then parse every segment
TokenizeAndParse(c) == parse_tokens(tokenize_content(c))

\* lines 52-60: every segment parses
ParseSegments ==
  /\ pc = "parse"
  /\ \E r \in {TokenizeAndParse(content)} :
       /\ r.ok
       /\ parsed_segments' = r.val
  /\ pc' = "scan"
  /\ i' = 1
  /\ UNCHANGED << content, outcome, api_call, isa, ak1, ak9,
                  transaction_validations, current_ak2, current_ak3_segments,
                  current_ak4_segments, h_ak1_at, h_ak2_at, h_ak9_at, h_closes >>

\* lines 52-60: tokenization or the first segment that does not parse raises
ParseSegmentsFails ==
  /\ pc = "parse"
  /\ \E r \in {TokenizeAndParse(content)} :
       /\ ~r.ok
       /\ outcome' = [kind |-> "raise", error |-> r.error]
  /\ pc' = "done"
  /\ UNCHANGED << content, api_call, locals >>

Scanning(type) ==
  /\ pc = "scan"
  /\ i <= Len(parsed_segments)
  /\ parsed_segments[i].type = type

\* list.index(x): the first position holding a segment equal to x
IndexOf(segs, x) ==
  CHOOSE j \in 1..Len(segs) : segs[j] = x /\ \A k \in 1..(j - 1) : segs[k] # x

\* next(s for s in segs[start:] if isinstance(s, AK5Segment), None), as the
\* position of that segment (0 when there is none)
NextAK5From(segs, start) ==
  LET found == {k \in start..Len(segs) : segs[k].type = "AK5"} IN
  IF found = {} THEN 0
  ELSE CHOOSE k \in found : \A j \in found : k <= j

\* lines 74-75
ScanISA ==
  /\ Scanning("ISA")
  /\ isa' = Some(parsed_segments[i])
  /\ i' = i + 1
  /\ UNCHANGED << content, pc, outcome, api_call, parsed_segments, ak1, ak9,
                  transaction_validations, current_ak2, current_ak3_segments,
                  current_ak4_segments, h_ak1_at, h_ak2_at, h_ak9_at, h_closes >>

\* lines 76-77 when a new AK1 also forgets the AK9 seen so far
ScanAK1_resets_ak9 ==
  /\ Scanning("AK1")
  /\ ak1' = Some(parsed_segments[i])
  /\ ak9' = None
  /\ h_ak1_at' = i
  /\ h_ak9_at' = 0
  /\ i' = i + 1
  /\ UNCHANGED << content, pc, outcome, api_call, parsed_segments, isa,
                  transaction_validations, current_ak2, current_ak3_segments,
                  current_ak4_segments, h_ak2_at, h_closes >>

\* lines 76-77
ScanAK1 ==
  /\ Scanning("AK1")
  /\ ak1' = Some(parsed_segments[i])
  /\ h_ak1_at' = i
  /\ i' = i + 1
  /\ UNCHANGED << content, pc, outcome, api_call, parsed_segments, isa, ak9,
                  transaction_validations, current_ak2, current_ak3_segments,
                  current_ak4_segments, h_ak2_at, h_ak9_at, h_closes >>

\* the AK2 branch without the reset of the two accumulators
ScanAK2_keeps_accumulators ==
  /\ Scanning("AK2")
  /\ LET ak5_at == IF current_ak2 # None
                     THEN NextAK5From(parsed_segments,
                                      IndexOf(parsed_segments, current_ak2[1]))
                     ELSE 0
     IN IF current_ak2 # None /\ ak5_at # 0
          THEN /\ transaction_validations' =
                    Append(transaction_validations,
                           validate_transaction_set(current_ak2[1],
                                                    parsed_segments[ak5_at],
                                                    current_ak3_segments,
                                                    current_ak4_segments))
               /\ h_closes' = Append(h_closes,
                                     [ak2_at |-> h_ak2_at, ak5_at |-> ak5_at,
                                      at |-> i])
          ELSE UNCHANGED << transaction_validations, h_closes >>
  /\ current_ak2' = Some(parsed_segments[i])
  /\ h_ak2_at' = i
  /\ i' = i + 1
  /\ UNCHANGED << content, pc, outcome, api_call, parsed_segments, isa, ak1, ak9,
                  current_ak3_segments, current_ak4_segments, h_ak1_at, h_ak9_at >>

\* lines 78-98: a new AK2; a loop still open is closed with the AK5 found by
\* searching parsed_segments from the first segment equal to current_ak2
ScanAK2 ==
  /\ Scanning("AK2")
  /\ LET ak5_at == IF current_ak2 # None
                     THEN NextAK5From(parsed_segments,
                                      IndexOf(parsed_segments, current_ak2[1]))
                     ELSE 0
     IN IF current_ak2 # None /\ ak5_at # 0
          THEN /\ transaction_validations' =
                    Append(transaction_validations,
                           validate_transaction_set(current_ak2[1],
                                                    parsed_segments[ak5_at],
                                                    current_ak3_segments,
                                                    current_ak4_segments))
               /\ h_closes' = Append(h_closes,
                                     [ak2_at |-> h_ak2_at, ak5_at |-> ak5_at,
                                      at |-> i])
          ELSE UNCHANGED << transaction_validations, h_closes >>
  /\ current_ak2' = Some(parsed_segments[i])
  /\ current_ak3_segments' = <<>>
  /\ current_ak4_segments' = <<>>
  /\ h_ak2_at' = i
  /\ i' = i + 1
  /\ UNCHANGED << content, pc, outcome, api_call, parsed_segments, isa, ak1, ak9,
                  h_ak1_at, h_ak9_at >>

\* lines 100-101
ScanAK3 ==
  /\ Scanning("AK3")
  /\ current_ak3_segments' = Append(current_ak3_segments, parsed_segments[i])
  /\ i' = i + 1
  /\ UNCHANGED << content, pc, outcome, api_call, parsed_segments, isa, ak1, ak9,
                  transaction_validations, current_ak2, current_ak4_segments,
                  h_ak1_at, h_ak2_at, h_ak9_at, h_closes >>

\* lines 102-103
ScanAK4 ==
  /\ Scanning("AK4")
  /\ current_ak4_segments' = Append(current_ak4_segments, parsed_segments[i])
  /\ i' = i + 1
  /\ UNCHANGED << content, pc, outcome, api_call, parsed_segments, isa, ak1, ak9,
                  transaction_validations, current_ak2, current_ak3_segments,
                  h_ak1_at, h_ak2_at, h_ak9_at, h_closes >>

\* lines 104-113: an AK5 closes the open loop, and does nothing without one
ScanAK5 ==
  /\ Scanning("AK5")
  /\ IF current_ak2 # None
       THEN /\ transaction_validations' =
                 Append(transaction_validations,
                        validate_transaction_set(current_ak2[1], parsed_segments[i],
                                                 current_ak3_segments,
                                                 current_ak4_segments))
            /\ h_closes' = Append(h_closes,
                                  [ak2_at |-> h_ak2_at, ak5_at |-> i, at |-> i])
            /\ current_ak2' = None
            /\ current_ak3_segments' = <<>>
            /\ current_ak4_segments' = <<>>
            /\ h_ak2_at' = 0
       ELSE UNCHANGED << transaction_validations, h_closes, current_ak2,
                         current_ak3_segments, current_ak4_segments, h_ak2_at >>
  /\ i' = i + 1
  /\ UNCHANGED << content, pc, outcome, api_call, parsed_segments, isa, ak1, ak9,
                  h_ak1_at, h_ak9_at >>

\* lines 114-115
ScanAK9 ==
  /\ Scanning("AK9")
  /\ ak9' = Some(parsed_segments[i])
  /\ h_ak9_at' = i
  /\ i' = i + 1
  /\ UNCHANGED << content, pc, outcome, api_call, parsed_segments, isa, ak1,
                  transaction_validations, current_ak2, current_ak3_segments,
                  current_ak4_segments, h_ak1_at, h_ak2_at, h_closes >>

\* lines 73-115: a segment of any other type matches no branch
ScanOther ==
  /\ pc = "scan"
  /\ i <= Len(parsed_segments)
  /\ parsed_segments[i].type \in {"GS", "ST", "SE", "GE", "IEA"}
  /\ i' = i + 1
  /\ UNCHANGED << content, pc, outcome, api_call, parsed_segments, isa, ak1, ak9,
                  transaction_validations, current_ak2, current_ak3_segments,
                  current_ak4_segments, h_ak1_at, h_ak2_at, h_ak9_at, h_closes >>

\* lines 117-119
RaiseMissing ==
  /\ pc = "scan"
  /\ i > Len(parsed_segments)
  /\ ~(isa # None /\ ak1 # None /\ ak9 # None)
  /\ outcome' = [kind |-> "raise", error |-> "ValueError"]
  /\ pc' = "done"
  /\ UNCHANGED << content, api_call, locals >>

\* lines 117-123
ReturnResult ==
  /\ pc = "scan"
  /\ i > Len(parsed_segments)
  /\ isa # None /\ ak1 # None /\ ak9 # None
  /\ outcome' = [kind |-> "return",
                 value |-> validate_997(isa[1], ak1[1], ak9[1],
                                        transaction_validations)]
  /\ pc' = "done"
  /\ UNCHANGED << content, api_call, locals >>

(***************************************************************************)
(* Direct calls of the validator API, one per behaviour.                   *)
(***************************************************************************)
\* all sequences over S of length at most n
SeqUpTo(S, n) == UNION {[1..m -> S] : m \in 0..n}

\* longest AK3 / AK4 / error list handed to a direct call
MaxArgs == 2

Typed(raws) == {ParsedSegment(r).val : r \in raws}

ApiAK2 == Typed({AK2_850})

ApiAK3 == Typed({AK3_N1, AK3_REF})

ApiAK4 == Typed({AK4_1, AK4_2})

ApiAK5 == Typed({AK5_A, AK5_R, AK5_e, AK5_Z})

ApiISA == Typed({ISA_OK})

ApiAK1 == Typed({AK1_PO})

ApiAK9 == Typed(AK9_Codes \cup {AK9_A05})

ApiErrors == {build_error_detail_from_ak3(a) : a \in ApiAK3}

ApiStatuses == {"ACCEPTED", "REJECTED"}

CallClassifyTransactionStatus ==
  /\ pc = "api"
  /\ \E c \in AckCodes :
       api_call' = Some([fn |-> "classify_transaction_status", args |-> <<c>>,
                         ret |-> classify_transaction_status(c)])
  /\ pc' = "returned"
  /\ UNCHANGED << content, outcome, locals >>

CallClassifyFunctionalGroupStatus ==
  /\ pc = "api"
  /\ \E c \in AckCodes :
       api_call' = Some([fn |-> "classify_functional_group_status", args |-> <<c>>,
                         ret |-> classify_functional_group_status(c)])
  /\ pc' = "returned"
  /\ UNCHANGED << content, outcome, locals >>

CallValidateTransactionSet ==
  /\ pc = "api"
  /\ \E ak2 \in ApiAK2, ak5 \in ApiAK5,
        ak3s \in SeqUpTo(ApiAK3, MaxArgs), ak4s \in SeqUpTo(ApiAK4, MaxArgs) :
       api_call' = Some([fn |-> "validate_transaction_set",
                         args |-> <<ak2, ak5, ak3s, ak4s>>,
                         ret |-> validate_transaction_set(ak2, ak5, ak3s, ak4s)])
  /\ pc' = "returned"
  /\ UNCHANGED << content, outcome, locals >>

\* a direct construction of the model, as the unit tests do
CallTransactionSetValidation ==
  /\ pc = "api"
  /\ \E status \in ApiStatuses, error_count \in 0..(MaxArgs + 1),
        errors \in SeqUpTo(ApiErrors, MaxArgs) :
       api_call' = Some([fn |-> "TransactionSetValidation",
                         args |-> <<status, error_count, errors>>,
                         ret |-> TransactionSetValidation("850", "5678", status,
                                   IF status = "ACCEPTED" THEN "A" ELSE "R",
                                   error_count, errors, <<>>)])
  /\ pc' = "returned"
  /\ UNCHANGED << content, outcome, locals >>

\* the transaction lists handed to validate_997: built by the validator or
\* constructed directly
ApiTransactionLists ==
  SeqUpTo({validate_transaction_set(ak2, ak5, <<a>>, <<>>) :
             ak2 \in ApiAK2, ak5 \in ApiAK5, a \in ApiAK3}, 1)
  \cup {<< TransactionSetValidation("850", "5678", "ACCEPTED", "A", 0, <<>>, <<>>),
           TransactionSetValidation("850", "5679", "REJECTED", "R", 3, <<>>, <<>>) >>}

CallValidate997 ==
  /\ pc = "api"
  /\ \E isa_seg \in ApiISA, ak1_seg \in ApiAK1, ak9_seg \in ApiAK9,
        tvs \in ApiTransactionLists :
       api_call' = Some([fn |-> "validate_997",
                         args |-> <<isa_seg, ak1_seg, ak9_seg, tvs>>,
                         ret |-> validate_997(isa_seg, ak1_seg, ak9_seg, tvs)])
  /\ pc' = "returned"
  /\ UNCHANGED << content, outcome, locals >>

(***************************************************************************)
(* Direct calls of the delimiter detector.                                 *)
(***************************************************************************)
\* the offsets of the element separators inside an X12 interchange header
ElementOffsets == {3, 6, 17, 20, 31, 34, 50, 53, 69, 76, 81, 83, 89, 99, 101, 103}

\* the header up to and including the sub-element separator
HeaderFields(e, b) == [k \in 1..(SUB_ELEMENT_SEPARATOR_POSITION + 1) |-> IF k <= Len(ISA_PREFIX) THEN ISA_PREFIX[k] ELSE IF k - 1 = SUB_ELEMENT_SEPARATOR_POSITION THEN b ELSE IF (k - 1) \in ElementOffsets THEN e ELSE "0"]

\* a header with separators e, s, b and extra characters before the terminator
Header(e, s, b, extra) == HeaderFields(e, b) \o [j \in 1..extra |-> "0"] \o <<s>>

\* most characters a header carries beyond the 106
MaxExtra == 1

SepChars == {"*", "~", "|", "!", " ", ":"}

Headers == {Header(e, s, b, extra) : e \in SepChars, s \in SepChars, b \in SepChars, extra \in 0..MaxExtra}

StandardHeader == Header("*", "~", ">", 0)

\* inputs that are no header, or a header with white space around it
OtherIsaInputs ==
  {<<>>, <<" ">>, <<"\n", " ">>, <<"I", "S", "A">>, <<"G", "S", "*", "0", "~">>,
   <<"I", "S", "A", "*", "0", "0", "*", "~">>,
   SubSeq(StandardHeader, 1, ISA_MIN_LENGTH - 1),
   <<"G">> \o Tail(StandardHeader),
   <<"G">> \o StandardHeader,
   <<" ">> \o StandardHeader \o <<"\n">>,
   <<" ">> \o SubSeq(StandardHeader, 1, ISA_MIN_LENGTH - 1),
   StandardHeader \o <<"\r", "\n">>,
   Header("*", "*", "*", 0) \o <<" ">>}

IsaInputs == Headers \cup OtherIsaInputs

CallDetectFromIsa ==
  /\ pc = "api"
  /\ \E isa_segment \in IsaInputs :
       api_call' = Some([fn |-> "detect_from_isa", args |-> <<isa_segment>>,
                         ret |-> detect_from_isa(isa_segment)])
  /\ pc' = "returned"
  /\ UNCHANGED << content, outcome, locals >>

\* a body segment: its tag, the element separator and one data character
Segment(tag, e, d) == tag \o <<e, d>>

RECURSIVE Render(_, _, _)
\* the text of the segments, each followed by the terminator s and by the
\* line break of its position
Render(segments, s, breaks) == IF segments = <<>> THEN <<>> ELSE Head(segments) \o <<s>> \o Head(breaks) \o Render(Tail(segments), s, Tail(breaks))

\* a document: a 106-character header and the segments of body
Document(e, s, b, body, breaks) == Render(<<HeaderFields(e, b)>> \o body, s, breaks)

LF == <<"\n">>

CR == <<"\r">>

CRLF == <<"\r", "\n">>

\* the same line break after every segment
Uniform(break) == [k \in 1..3 |-> break]

DocChars == SepChars \cup {"'"}

\* documents of a header and at most one segment, whose data character may
\* be one of the trial terminators
DetectorBodies(e) == {<<>>, <<Segment(<<"G", "S">>, e, "0")>>, <<Segment(<<"G", "S">>, e, "~")>>}

DetectorDocuments ==
  UNION {{Document(e, s, b, body, Uniform(break)) :
            s \in DocChars, b \in DocChars, body \in DetectorBodies(e), break \in {<<>>, LF}} :
         e \in DocChars}

\* contents that do not start with a header, or have white space around it
OtherContents ==
  {<<>>, <<" ">>, <<"\n", " ", "\t">>, <<"G", "S", "*", "0", "~">>,
   <<"I", "S", "A", "*", "0", "0", "*", "~">>,
   <<" ", "\n">> \o Document("*", "~", ":", <<Segment(<<"G", "S">>, "*", "0")>>, Uniform(LF))}

CallDetectFromFileContent ==
  /\ pc = "api"
  /\ \E c \in DetectorDocuments \cup OtherContents :
       api_call' = Some([fn |-> "detect_from_file_content", args |-> <<c>>,
                         ret |-> detect_from_file_content(c)])
  /\ pc' = "returned"
  /\ UNCHANGED << content, outcome, locals >>

\* the characters a configuration is written with
ConfigChars == {"*", "~", ":", "^"}

\* DelimitersConfig accepts any four single characters
DelimitersConfigs == {DelimitersConfig(e, s, b, r) : e \in ConfigChars, s \in ConfigChars, b \in ConfigChars, r \in ConfigChars}

DefaultDelimitersConfig == DelimitersConfig("*", "~", ":", "^")

CallUseDefaultDelimiters ==
  /\ pc = "api"
  /\ \E default_delimiters \in DelimitersConfigs :
       api_call' = Some([fn |-> "use_default_delimiters", args |-> <<default_delimiters>>,
                         ret |-> Ok(use_default_delimiters(default_delimiters))])
  /\ pc' = "returned"
  /\ UNCHANGED << content, outcome, locals >>

(***************************************************************************)
(* Direct calls of the tokenizer.                                          *)
(***************************************************************************)
Call(c, delimiters, config) == [content |-> c, delimiters |-> delimiters, config |-> config]

\* every setting of the three flags, with the given default delimiters
Configs(defaults) == {ParserConfig(a, d, t, p) : a \in BOOLEAN, d \in defaults, t \in BOOLEAN, p \in BOOLEAN}

\* the line breaks after the header and after each of two segments: one
\* convention throughout, none at all, or a mixture
LineBreaks == {Uniform(break) : break \in {<<>>, LF, CR, CRLF}} \cup {<<CRLF, LF, CR>>, <<LF, <<>>, CRLF>>}

\* separators of the documents tokenized: the standard ones, other trial
\* characters in both orders, and a terminator that is no trial character
Separators == {<<"*", "~", ":">>, <<"|", "!", ":">>, <<"!", "|", ":">>, <<"*", "'", ":">>}

\* a header and two segments under every line-break convention, with the
\* document's delimiters supplied or left to the tokenizer
LineBreakCalls ==
  {Call(Document(t[1], t[2], t[3], <<Segment(<<"G", "S">>, t[1], "0"), Segment(<<"I", "E", "A">>, t[1], "1")>>, breaks), delimiters, config) :
     t \in Separators, breaks \in LineBreaks,
     delimiters \in {None, Some(Delimiters("*", "~", ":", None)), Some(Delimiters("*", "'", ":", None))},
     config \in Configs({DefaultDelimitersConfig})}

\* what may stand between two terminators
Pieces == {<<>>, <<" ">>, <<"A">>, <<" ", "A", " ">>, <<"\n", "E">>}

\* most terminators in a text of pieces
MaxPieces == 2

NoBreaks == [k \in 1..MaxPieces |-> <<>>]

\* texts of up to MaxPieces terminated pieces and a last piece
PieceCalls ==
  {Call(Render(ps, "~", NoBreaks) \o last, delimiters, config) :
     ps \in SeqUpTo(Pieces, MaxPieces), last \in Pieces,
     delimiters \in {Some(Delimiters("*", "~", ":", None))},
     config \in Configs({DefaultDelimitersConfig})}

\* contents without a usable header, under both default configurations
FallbackCalls ==
  {Call(c, delimiters, config) :
     c \in OtherContents \cup {Document("*", "*", ":", <<>>, Uniform(<<>>)), Document("|", "!", ":", <<Segment(<<"G", "S">>, "|", "0")>>, Uniform(LF))},
     delimiters \in {None, Some(Delimiters("|", "!", ":", None))},
     config \in Configs({DefaultDelimitersConfig, DelimitersConfig("|", "!", ":", "^")})}

TokenizeCalls == LineBreakCalls \cup PieceCalls \cup FallbackCalls

\* the record of a call of tokenize_content
Recorded(call, t) == Some([fn |-> "tokenize_content", args |-> <<call.content, call.delimiters, call.config>>, ret |-> t.ret, events |-> t.events, used |-> t.used])

CallTokenizeContent ==
  /\ pc = "api"
  /\ \E call \in TokenizeCalls :
       api_call' = Recorded(call, EDITokenizer_tokenize_content(call.content, call.delimiters, call.config))
  /\ pc' = "returned"
  /\ UNCHANGED << content, outcome, locals >>

(***************************************************************************)
(* Direct calls of the element and segment parsers.                        *)
(***************************************************************************)
\* element lists with a present, an empty, a blank, a numeric and a
\* non-numeric element
ElementLists == {<<>>, <<"AK1">>, <<"AK1", "">>, <<"AK1", "66">>, <<"AK1", " ">>, <<"AK1", "abc">>, <<"AK1", "", "5">>, <<"AK1", "1.5", "-1">>}

\* largest position asked for
MaxPosition == 3

CallGetElement ==
  /\ pc = "api"
  /\ \E elements \in ElementLists, position \in 0..MaxPosition, required \in BOOLEAN, default \in {None, Some("N/A")} :
       api_call' = Some([fn |-> "get_element", args |-> <<elements, position, required, default>>,
                         ret |-> get_element(elements, position, required, default)])
  /\ pc' = "returned"
  /\ UNCHANGED << content, outcome, locals >>

CallGetElementAsInt ==
  /\ pc = "api"
  /\ \E elements \in ElementLists, position \in 0..MaxPosition, required \in BOOLEAN, default \in {None, Some(7)} :
       api_call' = Some([fn |-> "get_element_as_int", args |-> <<elements, position, required, default>>,
                         ret |-> get_element_as_int(elements, position, required, default)])
  /\ pc' = "returned"
  /\ UNCHANGED << content, outcome, locals >>

GS_OK == <<"GS", "FA", "SENDER", "RECEIVER", "20230101", "1200", "1", "X", "004010">>

ST_OK == <<"ST", "997", "0001">>

SE_OK == <<"SE", "5", "0001">>

IEA_OK == <<"IEA", "1", "000000001">>

\* a well-formed segment of every known tag, segments of other tags that
\* have the fields of a known one, a tag with white space around it and
\* known tags with malformed fields
TagSegments ==
  {ISA_OK, GS_OK, ST_OK, AK1_PO, AK2_850, AK3_N1, AK4_1, AK5_A, AK9_a, SE_OK, GE_1, IEA_OK,
   <<" AK1", "PO", "1234">>, <<"ak1", "PO", "1234">>, <<"AK">>, <<"AK10", "PO", "1234">>,
   <<"ZZ", "1">>, <<"TA1", "1", "0001">>, <<"ISB">> \o Tail(ISA_OK), <<" ", "PO", "1234">>,
   <<"", "PO">>, <<>>, GS_BAD, IEA_BAD, <<"AK2", "PO", "1234">>, <<"GE", "5", "0001">>}

CallParseSegmentById ==
  /\ pc = "api"
  /\ \E segment \in TagSegments :
       api_call' = Some([fn |-> "parse_segment_by_id", args |-> <<segment>>,
                         ret |-> parse_segment_by_id(segment)])
  /\ pc' = "returned"
  /\ UNCHANGED << content, outcome, locals >>

(***************************************************************************)
(* Direct calls of the element splitters.                                  *)
(***************************************************************************)
\* longest element split
MaxElementLen == 3

\* elements of data characters and of both separators
SplitElements == SeqUpTo({"A", ":", "^"}, MaxElementLen)

\* delimiters with the repetition separator unset and set
SplitDelimiters == {Delimiters("*", "~", ":", None), Delimiters("*", "~", ":", Some("^")), Delimiters("*", "~", ">", Some(":"))}

CallSplitCompositeElement ==
  /\ pc = "api"
  /\ \E element \in SplitElements, delimiters \in SplitDelimiters :
       api_call' = Some([fn |-> "split_composite_element", args |-> <<element, delimiters>>,
                         ret |-> Ok(split_composite_element(element, delimiters))])
  /\ pc' = "returned"
  /\ UNCHANGED << content, outcome, locals >>

CallSplitRepeatingElement ==
  /\ pc = "api"
  /\ \E element \in SplitElements, delimiters \in SplitDelimiters :
       api_call' = Some([fn |-> "split_repeating_element", args |-> <<element, delimiters>>,
                         ret |-> Ok(split_repeating_element(element, delimiters))])
  /\ pc' = "returned"
  /\ UNCHANGED << content, outcome, locals >>

(***************************************************************************)
(* Direct calls of the reconciler.                                         *)
(***************************************************************************)
\* outbound transactions: two of them share a control number
ApiOutbound == {OutboundTransaction("850", "0001", "1234", "PO"), OutboundTransaction("810", "0001", "1234", "PO"), OutboundTransaction("850", "10", "1234", "PO"), OutboundTransaction("850", "9", "1234", "PO")}

\* acknowledged transactions: two of them share a control number
ApiAcknowledgments == {TransactionSetValidation("850", "0001", "ACCEPTED", "A", 0, <<>>, <<>>), TransactionSetValidation("810", "0001", "REJECTED", "R", 0, <<>>, <<>>), TransactionSetValidation("850", "10", "ACCEPTED", "A", 0, <<>>, <<>>), TransactionSetValidation("850", "0002", "ACCEPTED", "A", 0, <<>>, <<>>)}

\* most transactions on a side of a reconciliation
MaxTransactions == 2

\* the acknowledged group around a list of acknowledged transactions
AcknowledgedGroup(tvs) == FunctionalGroupValidation("PO", "1234", "ACCEPTED", "A", Len(tvs), Len(tvs), Len(tvs), tvs, <<>>)

ReconciliationStatus == {"MATCHED", "MISSING_ACK", "UNEXPECTED_ACK", "CONTROL_NUMBER_MISMATCH"}

CallReconcileTransaction ==
  /\ pc = "api"
  /\ \E outbound_tx \in {None} \cup {Some(t) : t \in ApiOutbound},
        ack_tx \in {None} \cup {Some(t) : t \in ApiAcknowledgments} :
       api_call' = Some([fn |-> "reconcile_transaction",
                         args |-> <<outbound_tx, ack_tx>>,
                         ret |-> reconcile_transaction(outbound_tx, ack_tx)])
  /\ pc' = "returned"
  /\ UNCHANGED << content, outcome, locals >>

CallReconcileFunctionalGroup ==
  /\ pc = "api"
  /\ \E txs \in SeqUpTo(ApiOutbound, MaxTransactions),
        tvs \in SeqUpTo(ApiAcknowledgments, MaxTransactions) :
       api_call' = Some([fn |-> "reconcile_functional_group",
                         args |-> <<AcknowledgedGroup(tvs), OutboundFunctionalGroup("PO", "1234", txs)>>,
                         ret |-> reconcile_functional_group(AcknowledgedGroup(tvs), OutboundFunctionalGroup("PO", "1234", txs))])
  /\ pc' = "returned"
  /\ UNCHANGED << content, outcome, locals >>

CallReconcile ==
  /\ pc = "api"
  /\ \E txs \in SeqUpTo(ApiOutbound, MaxTransactions),
        tvs \in SeqUpTo(ApiAcknowledgments, MaxTransactions),
        group_control_number \in {"1234", "9999"} :
       api_call' = Some([fn |-> "reconcile",
                         args |-> <<ValidationResult("000000101", "SENDER", "RECEIVER", AcknowledgedGroup(tvs), TRUE), OutboundFunctionalGroup("PO", group_control_number, txs)>>,
                         ret |-> reconcile(ValidationResult("000000101", "SENDER", "RECEIVER", AcknowledgedGroup(tvs), TRUE), OutboundFunctionalGroup("PO", group_control_number, txs))])
  /\ pc' = "returned"
  /\ UNCHANGED << content, outcome, locals >>

\* a direct construction of the model
CallTransactionReconciliation ==
  /\ pc = "api"
  /\ \E outbound_tx \in {None} \cup {Some(t) : t \in ApiOutbound},
        ack_tx \in {None} \cup {Some(t) : t \in ApiAcknowledgments},
        status \in ReconciliationStatus :
       api_call' = Some([fn |-> "TransactionReconciliation",
                         args |-> <<outbound_tx, ack_tx, status>>,
                         ret |-> TransactionReconciliation(outbound_tx, ack_tx, status, None)])
  /\ pc' = "returned"
  /\ UNCHANGED << content, outcome, locals >>

(***************************************************************************)
(* Direct calls of the functional group validation.                        *)
(***************************************************************************)
CallValidateFunctionalGroup ==
  /\ pc = "api"
  /\ \E ak1_seg \in ApiAK1, ak9_seg \in ApiAK9 \cup Typed({AK9_R, AK9_P}),
        tvs \in ApiTransactionLists :
       api_call' = Some([fn |-> "validate_functional_group",
                         args |-> <<ak1_seg, ak9_seg, tvs>>,
                         ret |-> validate_functional_group(ak1_seg, ak9_seg, tvs)])
  /\ pc' = "returned"
  /\ UNCHANGED << content, outcome, locals >>

(***************************************************************************)
(* Inputs.                                                                 *)
(***************************************************************************)
NoContent == [header |-> "valid", segs |-> <<>>]

InitLocals ==
  /\ parsed_segments = <<>>
  /\ i = 0
  /\ isa = None
  /\ ak1 = None
  /\ ak9 = None
  /\ transaction_validations = <<>>
  /\ current_ak2 = None
  /\ current_ak3_segments = <<>>
  /\ current_ak4_segments = <<>>
  /\ h_ak1_at = 0
  /\ h_ak2_at = 0
  /\ h_ak9_at = 0
  /\ h_closes = <<>>

\* the caller either runs the pipeline on one of the contents or makes one
\* direct call
InitWith(contents) ==
  /\ \/ pc = "detect" /\ content \in contents
     \/ pc = "api" /\ content = NoContent
  /\ outcome = None
  /\ api_call = None
  /\ InitLocals

\* contents whose header fails detection
BadHeaders ==
  {[header |-> h, segs |-> <<ISA_OK, AK1_PO, AK9_a>>] : h \in {"too_short", "conflict"}}
  \cup {[header |-> "valid", segs |-> <<AK1_PO, AK9_a>>], NoContent}

\* samples that end in each of the other ways
Samples ==
  BadHeaders
  \cup {[header |-> "valid", segs |-> body] :
          body \in {<<ISA_BAD, AK1_PO, AK9_a>>,
                    <<ISA_OK, AK1_PO, AK2_850, AK5_A, AK9_a, GE_1>>,
                    <<ISA_OK, AK1_PO, AK9_a, IEA_BAD>>,
                    <<ISA_OK, AK1_PO, AK2_850, AK3_N1, AK4_1, AK5_R>>}}

\* segment streams in any order
Alphabet == {AK1_PO, AK2_850, AK3_N1, AK4_1, AK5_R, AK9_a, AK9_R, GE_1, ZZ_1, GS_BAD}

Contents ==
  {[header |-> "valid", segs |-> <<ISA_OK>> \o body] : body \in SeqUpTo(Alphabet, MaxLen)}
  \cup Samples

Init == InitWith(Contents)

\* AK2 loops in any order, with equal and different AK2 segments
MaxLoopLen == 5

LoopAlphabet == {AK2_850, AK2_810, AK3_N1, AK3_REF, AK4_1, AK5_R}

LoopContents ==
  {[header |-> "valid", segs |-> <<ISA_OK>> \o body] :
      body \in SeqUpTo(LoopAlphabet, MaxLoopLen)}
  \cup Samples

InitLoops == InitWith(LoopContents)

\* two functional-group loops in one interchange
MaxGroupLen == 2

GroupAlphabet == {AK2_850, AK2_810, AK3_N1, AK5_R}

GroupContents ==
  {[header |-> "valid",
    segs |-> <<ISA_OK, AK1_PO>> \o g1 \o <<AK9_a, AK1_IN>> \o g2 \o <<AK9_R>>] :
      g1 \in SeqUpTo(GroupAlphabet, MaxGroupLen),
      g2 \in SeqUpTo(GroupAlphabet, MaxGroupLen)}
  \cup Samples

InitGroups == InitWith(GroupContents)

Next ==
  \/ DetectDelimiters
  \/ DetectDelimitersFails
  \/ ParseSegments
  \/ ParseSegmentsFails
  \/ ScanISA
  \/ ScanAK1
  \/ ScanAK2
  \/ ScanAK3
  \/ ScanAK4
  \/ ScanAK5
  \/ ScanAK9
  \/ ScanOther
  \/ RaiseMissing
  \/ ReturnResult
  \/ CallClassifyTransactionStatus
  \/ CallClassifyFunctionalGroupStatus
  \/ CallValidateTransactionSet
  \/ CallTransactionSetValidation
  \/ CallValidate997
  \/ CallDetectFromIsa
  \/ CallDetectFromFileContent
  \/ CallUseDefaultDelimiters
  \/ CallTokenizeContent
  \/ CallGetElement
  \/ CallGetElementAsInt
  \/ CallParseSegmentById
  \/ CallSplitCompositeElement
  \/ CallSplitRepeatingElement
  \/ CallReconcileTransaction
  \/ CallReconcileFunctionalGroup
  \/ CallReconcile
  \/ CallTransactionReconciliation
  \/ CallValidateFunctionalGroup

Spec == Init /\ [][Next]_vars

SpecLoops == InitLoops /\ [][Next]_vars

SpecGroups == InitGroups /\ [][Next]_vars

(***************************************************************************)
(* Vocabulary of the properties.                                           *)
(***************************************************************************)
\* the pipeline has ended by returning a ValidationResult
Returned == pc = "done" /\ outcome.kind = "return"

\* the pipeline has ended by raising error
Raised(error) == pc = "done" /\ outcome.kind = "raise" /\ outcome.error = error

\* a direct call of fn has returned
Called(fn) == pc = "returned" /\ api_call[1].fn = fn

\* a segment of the given type has been read from the stream
Seen(type) == \E k \in DOMAIN parsed_segments : parsed_segments[k].type = type

\* the positions p, lo < p < hi, of the segments of the given type, in order
PositionsOf(type, lo, hi) ==
  SelectSeq([k \in 1..(hi - lo - 1) |-> lo + k],
            LAMBDA p : parsed_segments[p].type = type)

\* the positions of the AK3 segments that carry a syntax error code
CodedAK3(lo, hi) ==
  SelectSeq(PositionsOf("AK3", lo, hi),
            LAMBDA p : Truthy(parsed_segments[p].segment_syntax_error_code))

\* the greatest element of a non-empty set of positions
Last(positions) == CHOOSE p \in positions : \A q \in positions : q <= p

\* the number of syntax error slots of an AK5 that hold a code
SlotsUsed(ak5) ==
  Cardinality({n \in 1..5 :
     << ak5.transaction_set_syntax_error_code_1,
        ak5.transaction_set_syntax_error_code_2,
        ak5.transaction_set_syntax_error_code_3,
        ak5.transaction_set_syntax_error_code_4,
        ak5.transaction_set_syntax_error_code_5 >>[n] # None})

\* the classification table, written out for both letter cases
TableStatus(code) ==
  IF code \in {"A", "a"} THEN "ACCEPTED"
  ELSE IF code \in {"E", "e", "P", "p"} THEN "PARTIALLY_ACCEPTED"
  ELSE IF code \in {"R", "r", "M", "m", "W", "w", "X", "x"} THEN "REJECTED"
  ELSE "UNKNOWN"

\* the number of ErrorDetails held by a list of TransactionSetValidations
ErrorDetails(tvs) == SumSeq([k \in DOMAIN tvs |-> Len(tvs[k].errors)])

\* raw segments that do not parse: a field too short, an unknown tag, missing
\* required fields, a count that is no integer
MalformedSegments == {ISA_BAD, ZZ_1, GS_BAD, IEA_BAD}

(***************************************************************************)
(* C1.                                                                     *)
(***************************************************************************)
\* the call recorded by close uses the first AK5 after its AK2
UsesFirstAK5After(close) ==
  /\ close.ak5_at > close.ak2_at
  /\ PositionsOf("AK5", close.ak2_at, close.ak5_at) = <<>>

\* C1: every AK2 is finalized into at most one TransactionSetValidation, and
\* the AK5 it is finalized with is the first AK5 after that AK2 in the
\* segment stream, never one before it -- for every order of the segments,
\* also when AK2 segments have equal field values.
C1_FinalizedOnceWithFirstAK5After ==
  \A c \in DOMAIN h_closes :
    /\ UsesFirstAK5After(h_closes[c])
    /\ \A d \in DOMAIN h_closes : h_closes[d].ak2_at = h_closes[c].ak2_at => d = c

(***************************************************************************)
(* C2.                                                                     *)
(***************************************************************************)
\* C2: in an interchange with two AK1..AK9 loops, the transaction sets
\* reported with a group's AK1 identifiers and AK9 code are exactly those
\* whose AK2 lies between that AK1 and that AK9.
C2_GroupsAccumulateSeparately ==
  (Returned /\ Len(PositionsOf("AK1", 0, Len(parsed_segments) + 1)) = 2) =>
    \A c \in DOMAIN h_closes :
      h_ak1_at < h_closes[c].ak2_at /\ h_closes[c].ak2_at < h_ak9_at

(***************************************************************************)
(* C3.                                                                     *)
(***************************************************************************)
\* the ErrorDetail e of the AK4 read at position p of the loop opened at
\* position lo: the context of the AK3 that most recently precedes p, none
\* when the loop holds no AK3 (hi is where the loop was closed)
AttributedToPrecedingAK3(e, p, lo, hi) ==
  /\ e.element_position = Some(parsed_segments[p].element_position_in_segment)
  /\ e.element_reference_number = parsed_segments[p].data_element_reference_number
  /\ e.error_code = parsed_segments[p].data_element_syntax_error_code
  /\ e.bad_data_element = parsed_segments[p].copy_of_bad_data_element
  /\ PositionsOf("AK3", lo, hi) = <<>> =>
       e.segment_id = None /\ e.segment_position = None
  /\ PositionsOf("AK3", lo, p) # <<>> =>
       \E q \in {Last({PositionsOf("AK3", lo, p)[n] :
                         n \in DOMAIN PositionsOf("AK3", lo, p)})} :
         /\ e.segment_id = Some(parsed_segments[q].segment_id)
         /\ e.segment_position =
              Some(parsed_segments[q].segment_position_in_transaction_set)

\* C3: the ErrorDetail of each AK4 carries the segment tag and position of
\* the AK3 that most recently preceded that AK4 in its loop, with the AK4's
\* own element position, reference number, code and bad data; an AK4 in a
\* loop without AK3 carries no segment tag and no segment position.
C3_AK4AttributedToPrecedingAK3 ==
  \A c \in DOMAIN h_closes :
    \A n \in DOMAIN PositionsOf("AK4", h_closes[c].ak2_at, h_closes[c].at) :
      AttributedToPrecedingAK3(
        transaction_validations[c].errors[
          Len(CodedAK3(h_closes[c].ak2_at, h_closes[c].at)) + n],
        PositionsOf("AK4", h_closes[c].ak2_at, h_closes[c].at)[n],
        h_closes[c].ak2_at, h_closes[c].at)

(***************************************************************************)
(* C4.                                                                     *)
(***************************************************************************)
\* errors holds, in this order: one ErrorDetail for each AK3 of ak3_segments
\* with a code (segment context, no element position), one for each AK4 of
\* ak4_segments (element position), one for each used slot of ak5 (neither)
OrderedErrors(errors, ak3_segments, ak4_segments, ak5) ==
  \E n3 \in {Cardinality({k \in DOMAIN ak3_segments :
                            Truthy(ak3_segments[k].segment_syntax_error_code)})} :
    /\ Len(errors) = n3 + Len(ak4_segments) + SlotsUsed(ak5)
    /\ \A k \in 1..n3 :
         /\ errors[k].segment_id # None
         /\ errors[k].element_position = None
         /\ errors[k].error_description[1] = "segment_syntax_errors"
    /\ \A k \in DOMAIN ak4_segments :
         /\ errors[n3 + k].element_position =
              Some(ak4_segments[k].element_position_in_segment)
         /\ errors[n3 + k].error_code = ak4_segments[k].data_element_syntax_error_code
         /\ errors[n3 + k].error_description[1] = "element_syntax_errors"
    /\ \A k \in 1..SlotsUsed(ak5) :
         /\ errors[n3 + Len(ak4_segments) + k].segment_id = None
         /\ errors[n3 + Len(ak4_segments) + k].element_position = None
         /\ errors[n3 + Len(ak4_segments) + k].error_code = ak5_get_error_codes(ak5)[k]
         /\ errors[n3 + Len(ak4_segments) + k].error_description[1] =
              "transaction_set_syntax_errors"

\* C4: validate_transaction_set emits one ErrorDetail for each AK3 that has a
\* syntax error code, then one for each AK4, then one for each non-empty AK5
\* slot in slot order, and error_count is their total; in the pipeline the
\* count of every loop is (coded AK3) + (AK4) + (AK5 codes) of that loop.
C4_ErrorOrderAndCount ==
  /\ Called("validate_transaction_set") =>
       /\ OrderedErrors(api_call[1].ret.errors, api_call[1].args[3],
                        api_call[1].args[4], api_call[1].args[2])
       /\ api_call[1].ret.error_count = Len(api_call[1].ret.errors)
  /\ \A c \in DOMAIN h_closes :
       transaction_validations[c].error_count =
         Len(CodedAK3(h_closes[c].ak2_at, h_closes[c].at))
         + Len(PositionsOf("AK4", h_closes[c].ak2_at, h_closes[c].at))
         + SlotsUsed(parsed_segments[h_closes[c].ak5_at])

\* an 'R' loop with one coded AK3, one uncoded AK3 and one AK4: 2 errors plus
\* the two AK5 codes
C4_Witness ==
  /\ Called("validate_transaction_set")
  /\ api_call[1].args[2].transaction_set_ack_code = "R"
  /\ Len(api_call[1].args[3]) = 2
  /\ Len(ak3_errors(api_call[1].args[3])) = 1
  /\ Len(api_call[1].args[4]) = 1
  /\ api_call[1].ret.error_count = 4

(***************************************************************************)
(* C5.                                                                     *)
(***************************************************************************)
\* C5: classify_transaction_status follows the table in either letter case
\* (A; E, P; R, M, W, X; anything else UNKNOWN, returned as a value), and the
\* status of a TransactionSetValidation is the status of its AK5 code
\* whatever AK3 / AK4 errors the loop holds.
C5_TransactionStatusByCode ==
  /\ Called("classify_transaction_status") =>
       api_call[1].ret = TableStatus(api_call[1].args[1])
  /\ Called("validate_transaction_set") =>
       api_call[1].ret.status = TableStatus(api_call[1].args[2].transaction_set_ack_code)
  /\ \A c \in DOMAIN h_closes :
       transaction_validations[c].status =
         TableStatus(parsed_segments[h_closes[c].ak5_at].transaction_set_ack_code)

\* a lower-case rejection code
C5_Witness ==
  /\ Called("classify_transaction_status")
  /\ api_call[1].args[1] = "w"
  /\ api_call[1].ret = "REJECTED"

(***************************************************************************)
(* C6.                                                                     *)
(***************************************************************************)
\* C6: classify_functional_group_status returns, for every code in either
\* letter case, the status of the same name as classify_transaction_status:
\* M, W and X are REJECTED, an unrecognized code is UNKNOWN.
C6_GroupStatusSameAsTransactionStatus ==
  Called("classify_functional_group_status") =>
    /\ api_call[1].ret = TableStatus(api_call[1].args[1])
    /\ api_call[1].ret = classify_transaction_status(api_call[1].args[1])

(***************************************************************************)
(* C7.                                                                     *)
(***************************************************************************)
\* C7: when every segment parses, the pipeline raises the missing-segment
\* error exactly when ISA, AK1 or AK9 was never seen, and returns a
\* ValidationResult when all three were seen, whatever else is absent.
C7_MissingRequiredSegment ==
  (pc = "done" /\ i > 0) =>
    /\ Raised("ValueError") <=> ~(Seen("ISA") /\ Seen("AK1") /\ Seen("AK9"))
    /\ Returned <=> (Seen("ISA") /\ Seen("AK1") /\ Seen("AK9"))

\* a stream with ISA, AK1 and an AK2 loop but no AK9
C7_Witness ==
  /\ Raised("ValueError")
  /\ Seen("ISA") /\ Seen("AK1") /\ Seen("AK2") /\ Seen("AK5")
  /\ ~Seen("AK9")

(***************************************************************************)
(* C8.                                                                     *)
(***************************************************************************)
\* C8: a detection failure, or a segment that does not parse wherever it
\* stands, ends the pipeline with that error and without a ValidationResult.
C8_FailuresAbort ==
  pc = "done" =>
    /\ (content.segs = <<>> \/ content.header # "valid")
         => outcome.kind = "raise" /\ outcome.error \in
              {"InvalidISASegmentError", "DelimiterDetectionError"}
    /\ content.header = "conflict" /\ content.segs # <<>>
         /\ content.segs[1][1] = "ISA" => Raised("DelimiterDetectionError")
    /\ (content.segs # <<>> /\ content.header = "valid"
        /\ content.segs[1][1] = "ISA"
        /\ \E k \in DOMAIN content.segs : content.segs[k] \in MalformedSegments)
         => /\ Raised("TokenizationError")
            /\ transaction_validations = <<>>

\* a malformed IEA, which the scan would ignore, after the AK9
C8_Witness ==
  /\ Raised("TokenizationError")
  /\ Len(content.segs) = 4
  /\ content.segs[3] = AK9_a
  /\ content.segs[4] = IEA_BAD

(***************************************************************************)
(* C9.                                                                     *)
(***************************************************************************)
\* the flag of result is set exactly when the group status is ACCEPTED, that
\* is when the code of ak9_seg is A or a
ValidIffAccepted(result, ak9_seg) ==
  /\ result.is_valid <=> result.functional_group.status = "ACCEPTED"
  /\ result.is_valid <=> ak9_seg.functional_group_ack_code \in {"A", "a"}

\* C9: is_valid of every ValidationResult built by validate_997, directly or
\* by the pipeline, is true exactly when the functional group's status is
\* ACCEPTED, that is when the AK9 code is A or a; transaction statuses,
\* error counts and the AK9 counts play no part.
C9_ValidIffGroupAccepted ==
  /\ Called("validate_997") => ValidIffAccepted(api_call[1].ret, api_call[1].args[3])
  /\ Returned => ValidIffAccepted(outcome.value, ak9[1])

\* a valid result that holds a rejected transaction set and mismatched counts
C9_Witness ==
  /\ Called("validate_997")
  /\ api_call[1].ret.is_valid
  /\ \E k \in DOMAIN api_call[1].args[4] : api_call[1].args[4][k].status = "REJECTED"
  /\ api_call[1].args[3].number_of_accepted_transaction_sets = 0

(***************************************************************************)
(* C10.                                                                    *)
(***************************************************************************)
\* C10 as stated: every TransactionSetValidation, however constructed, has
\* error_count = len(errors), so total_errors of every group is the number
\* of its ErrorDetails.
C10_EveryConstructionCountsErrors ==
  /\ Called("TransactionSetValidation") =>
       api_call[1].ret.error_count = Len(api_call[1].ret.errors)
  /\ Called("validate_transaction_set") =>
       api_call[1].ret.error_count = Len(api_call[1].ret.errors)
  /\ Called("validate_997") =>
       total_errors(api_call[1].ret.functional_group) =
         ErrorDetails(api_call[1].ret.functional_group.transaction_validations)

\* C10 amended: every TransactionSetValidation built by
\* validate_transaction_set has error_count = len(errors), so total_errors
\* of every result of the pipeline is the number of its ErrorDetails; the
\* constructor itself does not relate the two fields.
C10_ValidatorCountsErrors ==
  /\ Called("validate_transaction_set") =>
       api_call[1].ret.error_count = Len(api_call[1].ret.errors)
  /\ \A k \in DOMAIN transaction_validations :
       transaction_validations[k].error_count = Len(transaction_validations[k].errors)
  /\ Returned =>
       total_errors(outcome.value.functional_group) =
         ErrorDetails(outcome.value.functional_group.transaction_validations)

\* a result of the pipeline with errors to count
C10_Witness ==
  /\ Returned
  /\ total_errors(outcome.value.functional_group) >= 2

(***************************************************************************)
(* Delimiter detection and tokenization.                                   *)
(***************************************************************************)
\* character codes of the characters the inputs are written with
ord == [c \in {"\t", "\n", "\f", "\r", " ", "!", "'", "*", "0", "1", ":", ">", "A", "E", "G", "I", "S", "^", "|", "~"} |-> CASE c = "\t" -> 9 [] c = "\n" -> 10 [] c = "\f" -> 12 [] c = "\r" -> 13 [] c = " " -> 32 [] c = "!" -> 33 [] c = "'" -> 39 [] c = "*" -> 42 [] c = "0" -> 48 [] c = "1" -> 49 [] c = ":" -> 58 [] c = ">" -> 62 [] c = "A" -> 65 [] c = "E" -> 69 [] c = "G" -> 71 [] c = "I" -> 73 [] c = "S" -> 83 [] c = "^" -> 94 [] c = "|" -> 124 [] c = "~" -> 126]

Printable(c) == ord[c] \in 32..126

\* the separators an interchange header carries at its fixed offsets
SeparatorsOf(h) == Delimiters(h[ELEMENT_SEPARATOR_POSITION + 1], h[Len(h)], h[SUB_ELEMENT_SEPARATOR_POSITION + 1], None)

\* h begins with ISA, has at least 106 characters, and its three separators
\* are mutually distinct printable characters
ValidHeader(h) ==
  /\ startswith(h, ISA_PREFIX)
  /\ Len(h) >= ISA_MIN_LENGTH
  /\ Cardinality({SeparatorsOf(h).element, SeparatorsOf(h).segment, SeparatorsOf(h).sub_element}) = 3
  /\ Printable(SeparatorsOf(h).element)
  /\ Printable(SeparatorsOf(h).segment)
  /\ Printable(SeparatorsOf(h).sub_element)

\* C11: for every header that begins with ISA, has at least 106 characters
\* and carries three mutually distinct printable separators e (offset 3),
\* s (last character) and b (offset 104), detect_from_isa returns exactly
\* (e, s, b) with the repetition separator unset.
C11_DetectFromIsaReturnsSeparators ==
  (Called("detect_from_isa") /\ ValidHeader(api_call[1].args[1]))
    => api_call[1].ret = Ok(SeparatorsOf(api_call[1].args[1]))

\* the interchange header a document starts with
HeaderOf(c) == SubSeq(c, 1, ISA_MIN_LENGTH)

\* C12: for every document that starts with a valid header with separators
\* (e, s, b), detect_from_file_content returns what detect_from_isa returns
\* for the header alone, namely (e, s, b), whichever trial characters or
\* newlines occur in the header or later in the document.
C12_FileContentSameAsHeader ==
  (/\ Called("detect_from_file_content")
   /\ Len(api_call[1].args[1]) >= ISA_MIN_LENGTH
   /\ ValidHeader(HeaderOf(api_call[1].args[1])))
    => /\ api_call[1].ret = detect_from_isa(HeaderOf(api_call[1].args[1]))
       /\ api_call[1].ret = Ok(SeparatorsOf(HeaderOf(api_call[1].args[1])))

\* element, segment and sub_element are mutually distinct and a repetition
\* separator that is set differs from the three
Distinct(d) ==
  /\ Cardinality({d.element, d.segment, d.sub_element}) = 3
  /\ d.repetition # None => d.repetition[1] \notin {d.element, d.segment, d.sub_element}

\* C13: every Delimiters value produced by detect_from_isa, by
\* detect_from_file_content or by use_default_delimiters has element, segment
\* and sub_element mutually distinct and a set repetition separator distinct
\* from the three; detection fails instead of returning identical separators.
C13_DelimitersDistinct ==
  ((Called("detect_from_isa") \/ Called("detect_from_file_content") \/ Called("use_default_delimiters")) /\ api_call[1].ret.ok)
    => Distinct(api_call[1].ret.val)

\* C14: detect_from_isa fails with InvalidISASegmentError, and neither
\* returns nor reports a conflict, for every empty input, every input whose
\* trimmed text does not begin with ISA and every header shorter than 106
\* characters; the prefix is checked before the length and both before any
\* separator is read, so the failure reported is the first of the three.
C14_InvalidHeaderRejected ==
  Called("detect_from_isa") =>
    /\ api_call[1].args[1] = <<>>
         => api_call[1].ret = RaiseMsg("InvalidISASegmentError", "ISA segment is empty")
    /\ (api_call[1].args[1] # <<>> /\ ~startswith(strip(api_call[1].args[1]), ISA_PREFIX))
         => api_call[1].ret = RaiseMsg("InvalidISASegmentError", "Segment does not start with 'ISA'")
    /\ (startswith(strip(api_call[1].args[1]), ISA_PREFIX) /\ Len(api_call[1].args[1]) < ISA_MIN_LENGTH)
         => api_call[1].ret = RaiseMsg("InvalidISASegmentError", "ISA segment too short")

\* a short input without the prefix was rejected for its prefix
C14_Witness ==
  /\ Called("detect_from_isa")
  /\ api_call[1].args[1] # <<>>
  /\ Len(api_call[1].args[1]) < ISA_MIN_LENGTH
  /\ ~startswith(strip(api_call[1].args[1]), ISA_PREFIX)
  /\ api_call[1].ret.error = "InvalidISASegmentError"

LineBreakChars == {"\r", "\n"}

\* the document starts with a valid header and its line breaks stand only
\* between its segments, each run of them right after a segment terminator
BreaksBetweenSegments(c) ==
  /\ Len(c) >= ISA_MIN_LENGTH
  /\ ValidHeader(HeaderOf(c))
  /\ \A k \in DOMAIN c : c[k] \in LineBreakChars => (k > 1 /\ c[k - 1] \in LineBreakChars \cup {c[ISA_MIN_LENGTH]})

\* the same document with no line breaks at all
WithoutBreaks(c) == SelectSeq(c, LAMBDA x : x \notin LineBreakChars)

\* C15: with preserve_line_breaks false, tokenize_content returns the same
\* segment list for documents that differ only in the line breaks between
\* their segments (CRLF, LF, CR, a mixture or none), with supplied and with
\* auto-detected delimiters: every such document tokenizes as the one
\* without line breaks.
C15_LineBreaksDoNotMatter ==
  (/\ Called("tokenize_content")
   /\ ~api_call[1].args[3].preserve_line_breaks
   /\ BreaksBetweenSegments(api_call[1].args[1]))
    => api_call[1].ret = EDITokenizer_tokenize_content(WithoutBreaks(api_call[1].args[1]), api_call[1].args[2], api_call[1].args[3]).ret

\* the positions where a piece of text starts: after a terminator or at the
\* start, and at the end when the text ends with a terminator or is empty
PieceStarts(text, term) == {k \in 1..(Len(text) + 1) : k = 1 \/ text[k - 1] = term}

\* the piece that starts at k runs up to the next terminator
PieceAt(text, term, k) == SubSeq(text, k, (CHOOSE j \in k..(Len(text) + 1) : (j = Len(text) + 1 \/ text[j] = term) /\ \A m \in k..(j - 1) : text[m] # term) - 1)

\* the piece as the configuration has it kept
Kept(piece, config) == IF config.trim_whitespace THEN strip(piece) ELSE piece

\* the starts of the pieces that are kept
KeptStarts(text, term, config) == {k \in PieceStarts(text, term) : Kept(PieceAt(text, term, k), config) # <<>>}

\* the n-th smallest member of a set of positions
Nth(positions, n) == CHOOSE k \in positions : Cardinality({j \in positions : j < k}) = n - 1

\* the text that is split: the content, without line breaks unless preserved
SplitText(call) == IF call.args[3].preserve_line_breaks THEN call.args[1] ELSE WithoutBreaks(call.args[1])

\* C16: tokenize_content returns the pieces of the content between the
\* occurrences of the segment terminator in their order, trimmed when
\* trim_whitespace is on: none is zero-length, none contains the
\* terminator, with trim_whitespace on none has white space at either end,
\* and there are as many as there are pieces that are non-empty after the
\* trimming.
C16_SegmentsAreNonEmptyPieces ==
  (Called("tokenize_content") /\ api_call[1].ret.ok) =>
    /\ \A k \in DOMAIN api_call[1].ret.val :
         /\ api_call[1].ret.val[k] # <<>>
         /\ api_call[1].used[1].segment \notin Chars(api_call[1].ret.val[k])
         /\ api_call[1].args[3].trim_whitespace => api_call[1].ret.val[k] = strip(api_call[1].ret.val[k])
    /\ Len(api_call[1].ret.val) = Cardinality(KeptStarts(SplitText(api_call[1]), api_call[1].used[1].segment, api_call[1].args[3]))
    /\ \A n \in DOMAIN api_call[1].ret.val :
         api_call[1].ret.val[n] = Kept(PieceAt(SplitText(api_call[1]), api_call[1].used[1].segment, Nth(KeptStarts(SplitText(api_call[1]), api_call[1].used[1].segment, api_call[1].args[3]), n)), api_call[1].args[3])

\* a text with an empty piece, a blank piece and a padded piece was
\* tokenized with trimming and kept the padded piece alone
C16_Witness ==
  /\ Called("tokenize_content")
  /\ api_call[1].args[1] = <<"~", " ", "~", " ", "A", " ">>
  /\ api_call[1].args[3].trim_whitespace
  /\ api_call[1].ret = Ok(<< <<"A">> >>)

\* the content is neither empty nor white space only
HasText(c) == ~(Chars(c) \subseteq Whitespace)

DetectionEvents == {"delimiters_auto_detected", "delimiter_detection_failed"}

\* the events logged on the way to the delimiters
EventsOf(call) == {call.events[k] : k \in DOMAIN call.events}

\* C17: tokenize_content without delimiters never fails because of the
\* detection: with auto-detection disabled it splits with the configured
\* defaults and does not detect; with auto-detection enabled and failing it
\* splits with the same defaults and returns a list; supplied delimiters
\* are used as given and nothing is detected.
C17_DetectionNeverFailsTokenization ==
  (Called("tokenize_content") /\ HasText(api_call[1].args[1])) =>
    /\ api_call[1].ret.ok
    /\ api_call[1].ret.val = clean_segments(split(handle_line_breaks(api_call[1].args[1], api_call[1].args[3]), api_call[1].used[1].segment), api_call[1].args[3])
    /\ (api_call[1].args[2] = None /\ ~api_call[1].args[3].auto_detect_delimiters)
         => /\ api_call[1].used = Some(from_config(api_call[1].args[3].default_delimiters))
            /\ EventsOf(api_call[1]) \cap DetectionEvents = {}
    /\ (api_call[1].args[2] = None /\ api_call[1].args[3].auto_detect_delimiters /\ ~detect_from_file_content(api_call[1].args[1]).ok)
         => api_call[1].used = Some(from_config(api_call[1].args[3].default_delimiters))
    /\ api_call[1].args[2] # None
         => /\ api_call[1].used = api_call[1].args[2]
            /\ EventsOf(api_call[1]) \cap DetectionEvents = {}

\* a document whose header carries other separators than the defaults was
\* tokenized with auto-detection disabled
C17_WitnessDisabled ==
  /\ Called("tokenize_content")
  /\ api_call[1].args[2] = None
  /\ ~api_call[1].args[3].auto_detect_delimiters
  /\ detect_from_file_content(api_call[1].args[1]).ok
  /\ detect_from_file_content(api_call[1].args[1]).val.segment # api_call[1].args[3].default_delimiters.segment
  /\ api_call[1].ret.ok

\* a content whose detection fails with a conflict was tokenized with the
\* defaults
C17_WitnessFallback ==
  /\ Called("tokenize_content")
  /\ api_call[1].args[2] = None
  /\ api_call[1].args[3].auto_detect_delimiters
  /\ detect_from_file_content(api_call[1].args[1]).error = "DelimiterDetectionError"
  /\ api_call[1].ret.ok

\* C18: tokenize_content fails with EmptyFileError for every content that
\* is empty or white space only, before any detection or splitting (nothing
\* is logged and no delimiters are in use), whatever the configuration and
\* whether or not delimiters are supplied; it never returns a list for it.
C18_EmptyContentRejected ==
  (Called("tokenize_content") /\ ~HasText(api_call[1].args[1])) =>
    /\ api_call[1].ret = Raise("EmptyFileError")
    /\ api_call[1].events = <<>>
    /\ api_call[1].used = None

\* a white-space-only content was rejected although delimiters were supplied
C18_Witness ==
  /\ Called("tokenize_content")
  /\ api_call[1].args[1] # <<>>
  /\ ~HasText(api_call[1].args[1])
  /\ api_call[1].args[2] # None
  /\ api_call[1].ret = Raise("EmptyFileError")

(***************************************************************************)
(* Element and segment parsing.                                            *)
(***************************************************************************)
\* the field asked for is out of range or the empty string
Missing(call) == call.args[2] >= Len(call.args[1]) \/ call.args[1][call.args[2] + 1] = ""

\* the element at the position asked for
Element(call) == call.args[1][call.args[2] + 1]

\* the numerals among the elements of the calls, with their values
Numerals == {<<"66", 66>>, <<"5", 5>>, <<"-1", 0 - 1>>}

\* C19: get_element and get_element_as_int fail for a required field that is
\* out of range or empty and yield the caller's default for an optional one;
\* otherwise get_element returns the raw element unchanged, and
\* get_element_as_int its integer value, failing on non-numeric content for
\* required and optional fields alike.
C19_FieldExtraction ==
  (Called("get_element") \/ Called("get_element_as_int")) =>
    /\ (Missing(api_call[1]) /\ api_call[1].args[3]) => api_call[1].ret = Raise("TokenizationError")
    /\ (Missing(api_call[1]) /\ ~api_call[1].args[3]) => api_call[1].ret = Ok(api_call[1].args[4])
    /\ (~Missing(api_call[1]) /\ Called("get_element")) => api_call[1].ret = Ok(Some(Element(api_call[1])))
    /\ (~Missing(api_call[1]) /\ Called("get_element_as_int")) =>
         /\ \A n \in Numerals : Element(api_call[1]) = n[1] => api_call[1].ret = Ok(Some(n[2]))
         /\ (\A n \in Numerals : Element(api_call[1]) # n[1]) => api_call[1].ret = Raise("TokenizationError")

\* an optional integer field with non-numeric content failed although a
\* default was supplied
C19_Witness ==
  /\ Called("get_element_as_int")
  /\ ~api_call[1].args[3]
  /\ api_call[1].args[4] # None
  /\ ~Missing(api_call[1])
  /\ Element(api_call[1]) = "abc"
  /\ api_call[1].ret = Raise("TokenizationError")

\* the trimmed first element of a segment
LeadingTag(segment) == StrStrip(segment[1])

\* C20: parse_segment_by_id selects the record shape from the trimmed first
\* element: a successful parse of a segment with one of the 12 known tags
\* returns the record type of exactly that tag, and a segment with any other
\* leading tag fails with TokenizationError, never returning a record.
C20_RecordTypeIsLeadingTag ==
  (Called("parse_segment_by_id") /\ api_call[1].args[1] # <<>>) =>
    /\ (LeadingTag(api_call[1].args[1]) \in KnownTags /\ api_call[1].ret.ok)
         => api_call[1].ret.val.type = LeadingTag(api_call[1].args[1])
    /\ LeadingTag(api_call[1].args[1]) \notin KnownTags
         => api_call[1].ret = Raise("TokenizationError")

\* a GE segment, whose fields would also make an SE record, was parsed
C20_Witness ==
  /\ Called("parse_segment_by_id")
  /\ api_call[1].args[1] = <<"GE", "5", "0001">>
  /\ api_call[1].ret.ok
  /\ api_call[1].ret.val.type = "GE"

RECURSIVE Join(_, _)
\* sep.join(parts)
Join(parts, sep) == IF parts = <<>> THEN <<>> ELSE IF Len(parts) = 1 THEN parts[1] ELSE parts[1] \o <<sep>> \o Join(Tail(parts), sep)

\* the separator a splitter call splits on: None when it is unset
SplitSeparator(call) == IF call.fn = "split_composite_element" THEN Some(call.args[2].sub_element) ELSE call.args[2].repetition

\* C21: split_composite_element and split_repeating_element never fail: a
\* non-empty element without the separator, and any non-empty element when
\* the repetition separator is unset, comes back as the one-element list of
\* the original value; when the separator occurs in the element, joining the
\* returned pieces with the separator gives the original element.
C21_SplitIsJoinInverse ==
  (Called("split_composite_element") \/ Called("split_repeating_element")) =>
    /\ api_call[1].ret.ok
    /\ (api_call[1].args[1] # <<>> /\ (SplitSeparator(api_call[1]) = None \/ SplitSeparator(api_call[1])[1] \notin Chars(api_call[1].args[1])))
         => api_call[1].ret.val = <<api_call[1].args[1]>>
    /\ (SplitSeparator(api_call[1]) # None /\ SplitSeparator(api_call[1])[1] \in Chars(api_call[1].args[1]))
         => Join(api_call[1].ret.val, SplitSeparator(api_call[1])[1]) = api_call[1].args[1]

\* an element with two adjacent repetition separators was split in three
C21_Witness ==
  /\ Called("split_repeating_element")
  /\ api_call[1].args[1] = <<"A", "^", "^">>
  /\ api_call[1].args[2].repetition = Some("^")
  /\ Len(api_call[1].ret.val) = 3

(***************************************************************************)
(* Reconciliation.                                                         *)
(***************************************************************************)
\* the reason a reconciliation of the two sides has to carry
ExpectedReason(outbound_tx, ack_tx, status) ==
  CASE status = "MATCHED" -> None
    [] status = "CONTROL_NUMBER_MISMATCH" -> Some(<<"Transaction set ID mismatch: expected ", outbound_tx[1].transaction_set_id, ", got ", ack_tx[1].transaction_set_id>>)
    [] status = "MISSING_ACK" -> Some(<<"No acknowledgment received for transaction ", outbound_tx[1].transaction_control_number>>)
    [] status = "UNEXPECTED_ACK" -> Some(<<"Unexpected acknowledgment for transaction ", ack_tx[1].transaction_control_number>>)

\* the status the two sides call for
ExpectedStatus(outbound_tx, ack_tx) ==
  IF outbound_tx # None /\ ack_tx # None
  THEN IF outbound_tx[1].transaction_set_id = ack_tx[1].transaction_set_id THEN "MATCHED" ELSE "CONTROL_NUMBER_MISMATCH"
  ELSE IF outbound_tx # None THEN "MISSING_ACK" ELSE "UNEXPECTED_ACK"

\* C22: reconcile_transaction, given at least one side, returns a record of
\* exactly one status: MATCHED without a reason when both sides carry the
\* same transaction set ID, CONTROL_NUMBER_MISMATCH with a reason naming both
\* IDs when they differ, MISSING_ACK or UNEXPECTED_ACK with a reason naming
\* the control number when one side is absent; the record carries exactly
\* the sides given, and its reason is absent exactly when it is MATCHED.
C22_ReconcileTransactionClassifies ==
  (Called("reconcile_transaction") /\ (api_call[1].args[1] # None \/ api_call[1].args[2] # None)) =>
    /\ api_call[1].ret.ok
    /\ api_call[1].ret.val.status \in ReconciliationStatus
    /\ api_call[1].ret.val.status = ExpectedStatus(api_call[1].args[1], api_call[1].args[2])
    /\ api_call[1].ret.val.mismatch_reason = ExpectedReason(api_call[1].args[1], api_call[1].args[2], api_call[1].ret.val.status)
    /\ api_call[1].ret.val.outbound_transaction = api_call[1].args[1]
    /\ api_call[1].ret.val.acknowledgment = api_call[1].args[2]
    /\ (api_call[1].ret.val.mismatch_reason = None) <=> (api_call[1].ret.val.status = "MATCHED")

\* both sides present with different transaction set IDs
C22_Witness ==
  /\ Called("reconcile_transaction")
  /\ api_call[1].args[1] # None /\ api_call[1].args[2] # None
  /\ api_call[1].args[1][1].transaction_set_id # api_call[1].args[2][1].transaction_set_id
  /\ api_call[1].ret.ok /\ api_call[1].ret.val.status = "CONTROL_NUMBER_MISMATCH"

\* the control numbers of a list of transactions
ControlNumbers(transactions) == {transactions[n].transaction_control_number : n \in DOMAIN transactions}

\* the same transactions in every order
Reorderings(transactions) == {[k \in DOMAIN transactions |-> transactions[p[k]]] : p \in Permutations(DOMAIN transactions)}

\* no two transactions of the list share a control number
UniqueControlNumbers(transactions) == \A m, n \in DOMAIN transactions : transactions[m].transaction_control_number = transactions[n].transaction_control_number => m = n

\* the control numbers of the reconciliations, in their order
ReconciledNumbers(fg) == [n \in DOMAIN fg.transaction_reconciliations |-> control_number(fg.transaction_reconciliations[n])]

\* one reconciliation per control number of either side, in ascending order
OnePerControlNumber(fg, outbound, acknowledged) ==
  /\ \A n \in DOMAIN ReconciledNumbers(fg) : ReconciledNumbers(fg)[n] # None
  /\ {ReconciledNumbers(fg)[n][1] : n \in DOMAIN ReconciledNumbers(fg)} = ControlNumbers(outbound) \cup ControlNumbers(acknowledged)
  /\ \A m, n \in DOMAIN ReconciledNumbers(fg) : m < n => str_less(ReconciledNumbers(fg)[m][1], ReconciledNumbers(fg)[n][1])
  /\ total_count(fg) = Cardinality(ControlNumbers(outbound) \cup ControlNumbers(acknowledged))

\* the group reconciled from reordered sides
Reordered(call, txs, tvs) == reconcile_functional_group([call.args[1] EXCEPT !.transaction_validations = tvs], [call.args[2] EXCEPT !.transactions = txs])

\* C23 as stated: reconcile_functional_group returns one reconciliation per
\* control number of the union, in ascending order, total_count is the size
\* of the union, and the returned value is the same for every ordering of
\* the outbound transactions and of the acknowledgments.
C23_SameResultForEveryOrdering ==
  Called("reconcile_functional_group") =>
    /\ api_call[1].ret.ok
    /\ OnePerControlNumber(api_call[1].ret.val, api_call[1].args[2].transactions, api_call[1].args[1].transaction_validations)
    /\ \A txs \in Reorderings(api_call[1].args[2].transactions), tvs \in Reorderings(api_call[1].args[1].transaction_validations) :
         Reordered(api_call[1], txs, tvs) = api_call[1].ret

\* C23 (amended): reconcile_functional_group returns one reconciliation per
\* control number of the union of the outbound and the acknowledged control
\* numbers and for no other key, in ascending order of control number (the
\* order of strings); total_count is the size of the union; and when no two
\* outbound transactions and no two acknowledgments share a control number,
\* the list of reconciliations is the same for every ordering of the two
\* sides.
C23_OnePerControlNumberSorted ==
  Called("reconcile_functional_group") =>
    /\ api_call[1].ret.ok
    /\ OnePerControlNumber(api_call[1].ret.val, api_call[1].args[2].transactions, api_call[1].args[1].transaction_validations)
    /\ (UniqueControlNumbers(api_call[1].args[2].transactions) /\ UniqueControlNumbers(api_call[1].args[1].transaction_validations)) =>
         \A txs \in Reorderings(api_call[1].args[2].transactions), tvs \in Reorderings(api_call[1].args[1].transaction_validations) :
           /\ Reordered(api_call[1], txs, tvs).ok
           /\ Reordered(api_call[1], txs, tvs).val.transaction_reconciliations = api_call[1].ret.val.transaction_reconciliations

\* two outbound transactions whose control numbers sort as strings against
\* their numeric order, and an acknowledgment of one of them and of another
C23_Witness ==
  /\ Called("reconcile_functional_group")
  /\ ControlNumbers(api_call[1].args[2].transactions) = {"10", "9"}
  /\ ControlNumbers(api_call[1].args[1].transaction_validations) = {"10", "0002"}
  /\ api_call[1].ret.ok
  /\ ReconciledNumbers(api_call[1].ret.val) = <<Some("0002"), Some("10"), Some("9")>>

\* the positions of the reconciliations of the group with one of the statuses
WithStatus(fg, statuses) == {n \in DOMAIN fg.transaction_reconciliations : fg.transaction_reconciliations[n].status \in statuses}

\* there is a transaction, and every transaction is MATCHED
AllMatched(fg) == Len(fg.transaction_reconciliations) > 0 /\ WithStatus(fg, {"MATCHED"}) = DOMAIN fg.transaction_reconciliations

\* C24: is_fully_reconciled, as the property of the group reconciliation and
\* as the field of the result of reconcile, is true exactly when there is at
\* least one transaction and every transaction is MATCHED: false when both
\* sides are empty, false when any transaction is MISSING_ACK,
\* UNEXPECTED_ACK or CONTROL_NUMBER_MISMATCH.
C24_FullyReconciledIffAllMatched ==
  Called("reconcile") =>
    /\ api_call[1].ret.ok
    /\ api_call[1].ret.val.is_fully_reconciled <=> AllMatched(api_call[1].ret.val.functional_group_reconciliation)
    /\ is_fully_reconciled(api_call[1].ret.val.functional_group_reconciliation) <=> AllMatched(api_call[1].ret.val.functional_group_reconciliation)
    /\ (api_call[1].args[2].transactions = <<>> /\ api_call[1].args[1].functional_group.transaction_validations = <<>>) => ~api_call[1].ret.val.is_fully_reconciled
    /\ WithStatus(api_call[1].ret.val.functional_group_reconciliation, {"MISSING_ACK", "UNEXPECTED_ACK", "CONTROL_NUMBER_MISMATCH"}) # {} => ~api_call[1].ret.val.is_fully_reconciled

\* a reconciliation of no outbound transaction with no acknowledgment
C24_Witness ==
  /\ Called("reconcile")
  /\ api_call[1].args[2].transactions = <<>>
  /\ api_call[1].args[1].functional_group.transaction_validations = <<>>
  /\ api_call[1].ret.ok
  /\ ~api_call[1].ret.val.is_fully_reconciled

\* the text of the summary the counts of the group call for
ExpectedSummary(fg) ==
  <<Cardinality(WithStatus(fg, {"MATCHED"})), "/", Len(fg.transaction_reconciliations), " transactions matched">>
  \o (IF WithStatus(fg, {"MISSING_ACK"}) # {} THEN <<", ", Cardinality(WithStatus(fg, {"MISSING_ACK"})), " missing acknowledgments">> ELSE <<>>)
  \o (IF WithStatus(fg, {"UNEXPECTED_ACK"}) # {} THEN <<", ", Cardinality(WithStatus(fg, {"UNEXPECTED_ACK"})), " unexpected acknowledgments">> ELSE <<>>)

\* C25: the summary built by reconcile is '{matched}/{total} transactions
\* matched', then '{n} missing acknowledgments' exactly when the missing
\* count is not zero, then '{n} unexpected acknowledgments' exactly when the
\* unexpected count is not zero, in that order, with the counts of the
\* returned reconciliation; no other status has a clause.
C25_SummaryClauses ==
  Called("reconcile") =>
    /\ api_call[1].ret.ok
    /\ api_call[1].ret.val.summary = ExpectedSummary(api_call[1].ret.val.functional_group_reconciliation)

\* a reconciliation with a mismatched, a missing and an unexpected transaction
C25_Witness ==
  /\ Called("reconcile")
  /\ api_call[1].ret.ok
  /\ WithStatus(api_call[1].ret.val.functional_group_reconciliation, {"CONTROL_NUMBER_MISMATCH"}) # {}
  /\ WithStatus(api_call[1].ret.val.functional_group_reconciliation, {"MISSING_ACK"}) # {}
  /\ WithStatus(api_call[1].ret.val.functional_group_reconciliation, {"UNEXPECTED_ACK"}) # {}
  /\ api_call[1].ret.val.summary = <<0, "/", 3, " transactions matched", ", ", 1, " missing acknowledgments", ", ", 1, " unexpected acknowledgments">>

\* C26: every TransactionReconciliation has at least one of its two sides:
\* reconcile_transaction with both sides absent raises instead of returning
\* a record, reconcile_functional_group never reaches that branch, and no
\* TransactionReconciliation with both sides absent can be constructed.
C26_AtLeastOneSide ==
  /\ (Called("reconcile_transaction") /\ api_call[1].args[1] = None /\ api_call[1].args[2] = None) => (~api_call[1].ret.ok /\ api_call[1].ret.error = "ValueError")
  /\ Called("reconcile_functional_group") => (api_call[1].ret.ok /\ \A n \in DOMAIN api_call[1].ret.val.transaction_reconciliations : control_number(api_call[1].ret.val.transaction_reconciliations[n]) # None)
  /\ Called("TransactionReconciliation") => (api_call[1].ret.outbound_transaction # None \/ api_call[1].ret.acknowledgment # None)

\* the five syntax-error slots of an AK9, in slot order
AK9Slots(seg) == <<seg.functional_group_syntax_error_code_1, seg.functional_group_syntax_error_code_2, seg.functional_group_syntax_error_code_3, seg.functional_group_syntax_error_code_4, seg.functional_group_syntax_error_code_5>>

\* the filled slots of an AK9
FilledSlots(seg) == {k \in 1..5 : AK9Slots(seg)[k] # None}

\* codes are the values of the filled slots, in slot order
CodesOfFilledSlots(codes, seg) ==
  /\ Len(codes) = Cardinality(FilledSlots(seg))
  /\ \A n \in DOMAIN codes : \E k \in FilledSlots(seg) : Cardinality({j \in FilledSlots(seg) : j < k}) = n - 1 /\ AK9Slots(seg)[k] = Some(codes[n])

\* C27: validate_functional_group copies the three counts of the AK9 and its
\* filled syntax-error slots (at most five, in slot order) unchanged into the
\* FunctionalGroupValidation: the counts are not compared with or adjusted to
\* the number of TransactionSetValidations, and the group codes become no
\* ErrorDetail: the transactions, their error counts and total_errors are
\* those of the transactions handed in.
C27_GroupCountsAndCodesCopied ==
  Called("validate_functional_group") =>
    /\ api_call[1].ret.transaction_sets_included = api_call[1].args[2].number_of_transaction_sets_included
    /\ api_call[1].ret.transaction_sets_received = api_call[1].args[2].number_of_received_transaction_sets
    /\ api_call[1].ret.transaction_sets_accepted = api_call[1].args[2].number_of_accepted_transaction_sets
    /\ CodesOfFilledSlots(api_call[1].ret.group_syntax_error_codes, api_call[1].args[2])
    /\ Len(api_call[1].ret.group_syntax_error_codes) <= 5
    /\ api_call[1].ret.transaction_validations = api_call[1].args[3]
    /\ total_errors(api_call[1].ret) = SumSeq([k \in DOMAIN api_call[1].args[3] |-> api_call[1].args[3][k].error_count])

\* an AK9 with codes in three of its slots and counts that differ from the
\* number of transactions handed in
C27_Witness ==
  /\ Called("validate_functional_group")
  /\ FilledSlots(api_call[1].args[2]) = {1, 3, 5}
  /\ api_call[1].ret.group_syntax_error_codes = <<"3", "5", "8">>
  /\ api_call[1].ret.transaction_sets_received # Len(api_call[1].args[3])
  /\ api_call[1].ret.transaction_sets_included # Len(api_call[1].args[3])
  /\ api_call[1].ret.transaction_sets_accepted # Len(api_call[1].args[3])

\* the segments of the given type read between positions lo and hi, in order
SegmentsOf(type, lo, hi) == [n \in DOMAIN PositionsOf(type, lo, hi) |-> parsed_segments[PositionsOf(type, lo, hi)[n]]]

\* an AK2 loop is open when the segment at position p is read: the nearest
\* AK2 or AK5 before p is an AK2
LoopOpenAt(p) == \E q \in 1..(p - 1) : parsed_segments[q].type = "AK2" /\ PositionsOf("AK2", q, p) = <<>> /\ PositionsOf("AK5", q, p) = <<>>

\* the loop of close starts at an AK2 and ends at the first AK2 or AK5 after it
OwnLoop(close) ==
  /\ close.ak2_at \in 1..(close.at - 1)
  /\ parsed_segments[close.ak2_at].type = "AK2"
  /\ parsed_segments[close.at].type \in {"AK2", "AK5"}
  /\ PositionsOf("AK2", close.ak2_at, close.at) = <<>>
  /\ PositionsOf("AK5", close.ak2_at, close.at) = <<>>

\* C28: the transaction accumulators are isolated: a TransactionSetValidation
\* is built from the AK3 and AK4 segments between its own AK2 and the next
\* AK2 or AK5, and from no other AK3 or AK4 (none read before the first AK2,
\* after an AK5 with no loop open, or in another loop); an AK5 read with no
\* loop open produces no TransactionSetValidation.
C28_AccumulatorsIsolated ==
  /\ Len(transaction_validations) = Len(h_closes)
  /\ \A c \in DOMAIN h_closes :
       /\ OwnLoop(h_closes[c])
       /\ transaction_validations[c] = validate_transaction_set(parsed_segments[h_closes[c].ak2_at], parsed_segments[h_closes[c].ak5_at], SegmentsOf("AK3", h_closes[c].ak2_at, h_closes[c].at), SegmentsOf("AK4", h_closes[c].ak2_at, h_closes[c].at))
  /\ \A p \in 1..(i - 1) : (p <= Len(parsed_segments) /\ parsed_segments[p].type = "AK5" /\ ~LoopOpenAt(p)) => \A c \in DOMAIN h_closes : h_closes[c].at # p

\* an AK3 before the first AK2, an AK5 with no loop open, and a loop with
\* another AK3 that is closed into a TransactionSetValidation
C28_Witness ==
  /\ pc = "scan"
  /\ Len(parsed_segments) >= 5
  /\ parsed_segments[2].type = "AK5"
  /\ parsed_segments[3].type = "AK3"
  /\ parsed_segments[4].type = "AK2"
  /\ parsed_segments[5].type = "AK3"
  /\ parsed_segments[5] # parsed_segments[3]
  /\ Len(transaction_validations) = 1
  /\ h_closes[1].ak2_at = 4
  /\ Len(transaction_validations[1].errors) = 1 + SlotsUsed(parsed_segments[h_closes[1].ak5_at])

\* the AK2 at position p has no AK5 anywhere after it
NoAK5After(p) == PositionsOf("AK5", p, Len(parsed_segments) + 1) = <<>>

\* C29: an AK2 with no AK5 anywhere after it in the stream yields no
\* TransactionSetValidation and no failure: a stream with its ISA, AK1 and
\* AK9 still returns a ValidationResult, whose transactions omit that AK2,
\* and there are never more TransactionSetValidations than AK2 segments.
C29_OpenLoopOmitted ==
  (pc = "done" /\ i > 0 /\ Seen("ISA") /\ Seen("AK1") /\ Seen("AK9")) =>
    /\ Returned
    /\ outcome.value.functional_group.transaction_validations = transaction_validations
    /\ \A c \in DOMAIN h_closes : ~NoAK5After(h_closes[c].ak2_at)
    /\ Len(transaction_validations) <= Len(PositionsOf("AK2", 0, Len(parsed_segments) + 1))

\* the position of the last transaction of the list with the control number
LastWith(transactions, key) == Last({n \in DOMAIN transactions : transactions[n].transaction_control_number = key})

\* the records of the list that a later record of the same control number,
\* different from them, follows
Superseded(transactions) == {transactions[n] : n \in {m \in DOMAIN transactions : m # LastWith(transactions, transactions[m].transaction_control_number) /\ transactions[m] # transactions[LastWith(transactions, transactions[m].transaction_control_number)]}}

\* the reconciliations of the group for the control number
ReconciliationsOf(fg, key) == SelectSeq(fg.transaction_reconciliations, LAMBDA tr : control_number(tr) = Some(key))

\* the records on the two sides of the reconciliations of the group
ReconciledRecords(fg) == UNION {{fg.transaction_reconciliations[n].outbound_transaction, fg.transaction_reconciliations[n].acknowledgment} : n \in DOMAIN fg.transaction_reconciliations}

\* one reconciliation per control number, of the last record of each side;
\* no superseded record on either side of a reconciliation
LastRecordWins(fg, outbound, acknowledged) ==
  /\ \A key \in ControlNumbers(outbound) : Len(ReconciliationsOf(fg, key)) = 1 /\ ReconciliationsOf(fg, key)[1].outbound_transaction = Some(outbound[LastWith(outbound, key)])
  /\ \A key \in ControlNumbers(acknowledged) : Len(ReconciliationsOf(fg, key)) = 1 /\ ReconciliationsOf(fg, key)[1].acknowledgment = Some(acknowledged[LastWith(acknowledged, key)])
  /\ \A record \in Superseded(outbound) \cup Superseded(acknowledged) : Some(record) \notin ReconciledRecords(fg)
  /\ total_count(fg) = Cardinality(ControlNumbers(outbound) \cup ControlNumbers(acknowledged))

\* C30 as stated: when two outbound transactions or two acknowledgments
\* share a control number, reconcile_functional_group reconciles only the
\* last of them, in a single TransactionReconciliation; the earlier record
\* appears nowhere in the returned value, and total_count counts the
\* distinct control numbers.
C30_EarlierRecordNowhere ==
  Called("reconcile_functional_group") =>
    /\ api_call[1].ret.ok
    /\ LastRecordWins(api_call[1].ret.val, api_call[1].args[2].transactions, api_call[1].args[1].transaction_validations)
    /\ \A record \in Superseded(api_call[1].args[2].transactions) \cup Superseded(api_call[1].args[1].transaction_validations) :
         \A n \in DOMAIN api_call[1].ret.val.outbound_group[1].transactions : api_call[1].ret.val.outbound_group[1].transactions[n] # record

\* C30 (amended): when two outbound transactions or two acknowledgments
\* share a control number, reconcile_functional_group reconciles only the
\* last of them, in a single TransactionReconciliation; the earlier record
\* appears in no TransactionReconciliation of the result (an earlier
\* outbound transaction remains in the outbound group the result carries as
\* given), and total_count counts the distinct control numbers.
C30_LastRecordWins ==
  Called("reconcile_functional_group") =>
    /\ api_call[1].ret.ok
    /\ LastRecordWins(api_call[1].ret.val, api_call[1].args[2].transactions, api_call[1].args[1].transaction_validations)
    /\ api_call[1].ret.val.outbound_group = Some(api_call[1].args[2])

\* two different outbound transactions and two different acknowledgments of
\* one control number
C30_Witness ==
  /\ Called("reconcile_functional_group")
  /\ Len(api_call[1].args[2].transactions) = 2
  /\ Len(api_call[1].args[1].transaction_validations) = 2
  /\ Superseded(api_call[1].args[2].transactions) # {}
  /\ Superseded(api_call[1].args[1].transaction_validations) # {}
  /\ api_call[1].ret.ok
  /\ total_count(api_call[1].ret.val) = 1
  /\ api_call[1].ret.val.transaction_reconciliations[1].outbound_transaction = Some(api_call[1].args[2].transactions[2])
  /\ api_call[1].ret.val.transaction_reconciliations[1].acknowledgment = Some(api_call[1].args[1].transaction_validations[2])

====
